---- MODULE Spec2Model ----
(***************************************************************************)
(* A model of the brev mail server core: the MaybeTls stream and the       *)
(* buffered Connection (crates/line), the SMTP session and its message     *)
(* readers DATA and BDAT (crates/smtp), and the IMAP session               *)
(* (crates/imap).                                                          *)
(*                                                                         *)
(* The specifications share the variables:                                 *)
(*   SpecStream the MaybeTls stream under an arbitrary caller              *)
(*   SpecData  the DATA dot-stuffing reader on a byte stream               *)
(*   SpecBdat  an Incoming in BDAT mode on a stream of chunks              *)
(*   SpecSmtp  the SMTP session, fed command lines by a client             *)
(*   SpecDataCodec  the DATA reader fed an encoded message body            *)
(*   SpecImap  the IMAP session, fed command lines by a client             *)
(*   SpecQueue the IMAP command queue and the operations it hands out     *)
(*   SpecLine  read_cmd of the SMTP session on lines of given lengths    *)
(*   SpecSelect the select! of handle_imap over next_op and the handlers   *)
(* A variable a specification does not use keeps its initial value.        *)
(***************************************************************************)
EXTENDS Integers, Sequences, FiniteSets, TLC

VARIABLES
    wire,          \* what the client has sent and the server's socket still holds
    toSend,        \* SpecData/SpecBdat: what the client is still going to send
    clientClosed,  \* the client has shut down its write side
    buffer,        \* BufReader: read from the socket, not yet consumed
    inner,         \* MaybeTls.inner: "Plain", "Tls" or "Empty"
    tlsConfig,     \* Context.tls.is_some()
    pc,            \* where the session (or reader) and its caller stand
    panic,         \* "none", or the assertion / unwrap / unreachable that fired
    out,           \* the replies written to the client, in order
    serverClosed,  \* the server has shut down its write side
    dataState,     \* data.rs State of the DATA reader
    bdat,          \* bdat.rs Inner of the BDAT reader
    script,        \* SpecBdat: the chunks the client's input was built from
    consumed,      \* what the reader has taken from the stream so far
    delivered,     \* what the reader has handed to its consumer so far
    pollResult,    \* outcome of the last poll_read: "None" | "Ready" | "Pending" | "Err"
    pollBytes,     \* what the last poll_read put into the consumer's buffer
    taken,         \* the Inner that a pending MaybeTls::upgrade took out of the stream
    ret,           \* what the last call on the stream returned
    envelope,      \* Session.envelope (SMTP)
    helo_domain,   \* Session.helo_domain (SMTP)
    identity,      \* Session.identity
    greeted,       \* Session.greeted (SMTP); the greeting was written (IMAP)
    sessionState,  \* Session.state (IMAP)
    incoming,      \* the Incoming that next_message yielded, while its caller holds it
    validated,     \* the Identity the Validator returned last, "None" before that
    commands,      \* Queue.commands: the operations in flight, tag -> command name
    rx,            \* the payloads sent on the Queue's channel and not yet received
    rxOpen,        \* the Queue, and with it the receiver, has not been dropped
    channels,      \* the Channels handed out by insert and not yet used: tag -> how many
    inserted,      \* how often insert was called with each tag
    removed,       \* how often ready or wait removed each tag from the map
    lines,         \* SpecLine: the lengths of the lines the client sends
    offset,        \* SpecLine: how many bytes read_cmd has taken off the stream
    parsed,        \* the lines read_cmd has dealt with: where its commands began
                   \* (SpecLine), the lines themselves (SpecSelect)
    buf            \* SpecSelect: the Vec of a read_cmd in progress

clientVars == <<toSend, clientClosed>>
streamVars == <<wire, buffer>>
connVars == <<inner, tlsConfig>>
wireVars == <<out, serverClosed>>
bodyVars == <<dataState, bdat, script>>
readVars == <<consumed, delivered, pollResult, pollBytes>>
callVars == <<taken, ret>>
sessionVars == <<envelope, helo_domain, identity, greeted, sessionState, validated>>
queueVars == <<commands, rx, rxOpen, channels, inserted, removed>>
lineVars == <<lines, offset, parsed, buf>>
vars == <<wire, toSend, clientClosed, buffer, inner, tlsConfig, pc, panic,
          out, serverClosed, dataState, bdat, script,
          consumed, delivered, pollResult, pollBytes,
          taken, ret, envelope, helo_domain, identity, greeted,
          sessionState, incoming, validated,
          commands, rx, rxOpen, channels, inserted, removed,
          lines, offset, parsed, buf>>

(***************************************************************************)
(* Bounds                                                                  *)
(***************************************************************************)
MaxDataLen == 6
MaxChunks == 3
MaxChunkSize == 2
MaxStreamLen == 2
MaxPipeline == 2
MaxPipelinedChunk == 1
MaxOps == 3
MaxLines == 2

(***************************************************************************)
(* Helpers on sequences                                                    *)
(***************************************************************************)
SeqsUpTo(S, n) == UNION {[1..k -> S] : k \in 0..n}

EndsWith(s, t) ==
    /\ Len(s) >= Len(t)
    /\ SubSeq(s, Len(s) - Len(t) + 1, Len(s)) = t

Drop(s, n) == SubSeq(s, n + 1, Len(s))

IsPrefix(s, t) ==
    /\ Len(s) <= Len(t)
    /\ SubSeq(t, 1, Len(s)) = s

Min(a, b) == IF a <= b THEN a ELSE b

(***************************************************************************)
(* Values of the session fields                                            *)
(***************************************************************************)
\* Option<Envelope>: None
NoEnvelope == [some |-> FALSE, from |-> "-", recipients |-> {}]

\* no Incoming is out
NoIncoming == [kind |-> "None", envelope |-> NoEnvelope]

\* the tags a client may use
Tags == {"t1", "t2"}

\* no line of a client read yet
NewLines ==
    /\ lines = <<>>
    /\ offset = 0
    /\ parsed = <<>>
    /\ buf = <<>>

\* Queue::new: nothing in flight, an open channel with nothing in it
NewQueue ==
    /\ commands = <<>>
    /\ rx = <<>>
    /\ rxOpen = TRUE
    /\ channels = [t \in Tags |-> 0]
    /\ inserted = [t \in Tags |-> 0]
    /\ removed = [t \in Tags |-> 0]

\* the session fields as Session::new leaves them, and no call in progress
NewSession ==
    /\ NewQueue
    /\ NewLines
    /\ envelope = NoEnvelope
    /\ helo_domain = "None"
    /\ identity = "None"
    /\ greeted = FALSE
    /\ sessionState = "NotAuthenticated"
    /\ validated = "None"
    /\ taken = "None"
    /\ ret = <<"-", "-">>

\* the caller or the session has come to an end
Stopped == pc \in {"failed", "panicked", "closed", "accepted", "rejected"}

(***************************************************************************)
(* The buffered stream: BufReader over the socket.  A read that finds the  *)
(* buffer empty fills it with everything the socket holds; how the         *)
(* client's bytes are cut into arrivals is the client's choice of when to  *)
(* send.                                                                   *)
(***************************************************************************)
\* what a reader that reads on until it has enough (read_until, read_u8 in a
\* loop) can get without waiting
Avail == buffer \o wire

\* the stream is at end of file
AtEof == clientClosed /\ toSend = <<>> /\ Avail = <<>>

\* the stream after n items were consumed; filled: the reader asked for more
\* than the buffer held
AfterRead(n, filled) ==
    /\ buffer' = IF filled THEN Drop(Avail, n) ELSE Drop(buffer, n)
    /\ wire' = IF filled THEN <<>> ELSE wire

(***************************************************************************)
(* crates/smtp/src/message/data.rs: the DATA reader                        *)
(***************************************************************************)
CR == "CR"
LF == "LF"
DOT == "DOT"
Bytes == {CR, LF, DOT, "X"}

\* the end-of-data sequence CR LF '.' CR LF
Terminator == <<CR, LF, DOT, CR, LF>>

\* State::as_bytes: the bytes a state has swallowed and not yet emitted
as_bytes(state) ==
    CASE state = "Cr" -> <<CR>>
      [] state = "CrLf" -> <<CR, LF>>
      [] state = "CrLfDot" -> <<CR, LF, DOT>>
      [] state = "CrLfDotCr" -> <<CR, LF, DOT, CR>>
      [] state = "CrLfDotDot" -> <<CR, LF, DOT, DOT>>
      [] state = "CrLfDotDotCr" -> <<CR, LF, DOT, DOT, CR>>

\* State::advance with a slip in the terminator arm: the swallowed prefix is
\* flushed whole, as in the fall-through arm
RECURSIVE advance_flushes_terminator(_, _)
advance_flushes_terminator(state, b) ==
    CASE state = "Start" /\ b = CR -> [state |-> "Cr", out |-> <<>>]
      [] state = "Start" /\ b # CR -> [state |-> "Start", out |-> <<b>>]
      [] state = "Cr" /\ b = LF -> [state |-> "CrLf", out |-> <<>>]
      [] state = "CrLf" /\ b = DOT -> [state |-> "CrLfDot", out |-> <<>>]
      [] state = "CrLfDot" /\ b = CR -> [state |-> "CrLfDotCr", out |-> <<>>]
      [] state = "CrLfDot" /\ b = DOT -> [state |-> "CrLfDotDot", out |-> <<>>]
      [] state = "CrLfDotDot" /\ b = CR -> [state |-> "CrLfDotDotCr", out |-> <<>>]
      [] state = "CrLfDotDotCr" /\ b = LF -> [state |-> "CrLf", out |-> <<CR, LF, DOT>>]
      [] state = "CrLfDotCr" /\ b = LF ->
            [state |-> "Eof", out |-> as_bytes(state) \o <<b>>]
      [] state = "Eof" -> [state |-> "Panic", out |-> <<>>]
      [] OTHER ->
            LET again == advance_flushes_terminator("Start", b)
            IN  [state |-> again.state, out |-> as_bytes(state) \o again.out]

\* State::advance: the new state and the bytes put into the consumer's buffer
RECURSIVE advance(_, _)
advance(state, b) ==
    CASE state = "Start" /\ b = CR -> [state |-> "Cr", out |-> <<>>]
      [] state = "Start" /\ b # CR -> [state |-> "Start", out |-> <<b>>]
      [] state = "Cr" /\ b = LF -> [state |-> "CrLf", out |-> <<>>]
      [] state = "CrLf" /\ b = DOT -> [state |-> "CrLfDot", out |-> <<>>]
      [] state = "CrLfDot" /\ b = CR -> [state |-> "CrLfDotCr", out |-> <<>>]
      [] state = "CrLfDot" /\ b = DOT -> [state |-> "CrLfDotDot", out |-> <<>>]
      [] state = "CrLfDotDot" /\ b = CR -> [state |-> "CrLfDotDotCr", out |-> <<>>]
      [] state = "CrLfDotDotCr" /\ b = LF -> [state |-> "CrLf", out |-> <<CR, LF, DOT>>]
      [] state = "CrLfDotCr" /\ b = LF -> [state |-> "Eof", out |-> <<CR, LF>>]
      [] state = "Eof" -> [state |-> "Panic", out |-> <<>>]
      [] OTHER ->
            LET again == advance("Start", b)
            IN  [state |-> again.state, out |-> as_bytes(state) \o again.out]

\* The loop of Data::poll_read over the bytes that have arrived: read_u8 and
\* advance until a byte is emitted, Eof is entered or the bytes run out.
RECURSIVE Data_read_loop(_, _, _)
Data_read_loop(state, avail, n) ==
    IF state = "Eof"
    THEN [state |-> state, n |-> n, out |-> <<>>, more |-> FALSE]
    ELSE IF n = Len(avail)
    THEN [state |-> state, n |-> n, out |-> <<>>, more |-> TRUE]
    ELSE LET r == advance(state, avail[n + 1])
         IN  IF r.out # <<>>
             THEN [state |-> r.state, n |-> n + 1, out |-> r.out, more |-> FALSE]
             ELSE Data_read_loop(r.state, avail, n + 1)

\* Data::poll_read with room for at least 5 bytes in the consumer's buffer
Data_poll_read ==
    /\ pc = "data"
    /\ \E r \in {Data_read_loop(dataState, Avail, 0)} :
       LET eof == clientClosed /\ toSend = <<>>
       IN  /\ r.more => (pollResult # "Pending" \/ r.n > 0 \/ eof)
           /\ dataState' = r.state
           /\ AfterRead(r.n, r.more \/ r.n > Len(buffer))
           /\ consumed' = consumed \o SubSeq(Avail, 1, r.n)
           /\ delivered' = delivered \o r.out
           /\ pollBytes' = r.out
           \* read_u8 at end of stream fails with UnexpectedEof, which
           \* poll_read turns into Ready(Ok(())) with nothing filled
           /\ pollResult' = IF r.more /\ ~eof THEN "Pending" ELSE "Ready"
    /\ UNCHANGED <<clientVars, connVars, queueVars, lineVars, wireVars, pc, panic, bdat, script,
                   callVars, sessionVars, incoming>>

\* Data::poll_read with room for exactly 5 bytes, when the advance that emits
\* puts more than 5: the room is checked before read_u8 only, the first
\* put_slice of advance fills the buffer and the put_slice of the byte fed
\* again from Start panics
Data_poll_read_full ==
    /\ pc = "data"
    /\ \E r \in {Data_read_loop(dataState, Avail, 0)} :
        /\ Len(r.out) > 5
        /\ dataState' = r.state
        /\ AfterRead(r.n, r.n > Len(buffer))
        /\ consumed' = consumed \o SubSeq(Avail, 1, r.n)
    /\ pc' = "panicked"
    /\ panic' = "buf.len() must fit in remaining()"
    /\ pollResult' = "None"
    /\ pollBytes' = <<>>
    /\ UNCHANGED <<clientVars, connVars, queueVars, lineVars, wireVars, bdat, script,
                   delivered, callVars, sessionVars, incoming>>

\* Data::poll_read with fewer than 5 bytes of room: wake and return Pending
Data_poll_read_small ==
    /\ pc = "data"
    /\ dataState # "Eof"
    /\ pollResult # "Pending"
    /\ pollResult' = "Pending"
    /\ pollBytes' = <<>>
    /\ UNCHANGED <<clientVars, streamVars, connVars, queueVars, lineVars, wireVars, pc, panic,
                   bodyVars, consumed, delivered, callVars, sessionVars, incoming>>

\* the client's next item arrives at the server's socket
ClientSend ==
    /\ ~Stopped
    /\ toSend # <<>>
    /\ wire' = Append(wire, Head(toSend))
    /\ toSend' = Tail(toSend)
    /\ UNCHANGED <<clientClosed, buffer, connVars, queueVars, lineVars, wireVars, pc, panic,
                   bodyVars, readVars, callVars, sessionVars, incoming>>

\* client.shutdown()
ClientShutdown ==
    /\ ~Stopped
    /\ toSend = <<>>
    /\ ~clientClosed
    /\ clientClosed' = TRUE
    /\ UNCHANGED <<toSend, streamVars, connVars, queueVars, lineVars, wireVars, pc, panic,
                   bodyVars, readVars, callVars, sessionVars, incoming>>

\* Data::new(stream) on a stream the client writes `toSend` to
InitData ==
    /\ toSend \in SeqsUpTo(Bytes, MaxDataLen)
    /\ wire = <<>>
    /\ clientClosed = FALSE
    /\ buffer = <<>>
    /\ inner = "Plain"
    /\ tlsConfig = FALSE
    /\ pc = "data"
    /\ panic = "none"
    /\ out = <<>>
    /\ serverClosed = FALSE
    /\ dataState = "Start"
    /\ bdat = [kind |-> "None", limit |-> 0, last |-> FALSE]
    /\ script = <<>>
    /\ consumed = <<>>
    /\ delivered = <<>>
    /\ pollResult = "None"
    /\ pollBytes = <<>>
    /\ incoming = NoIncoming
    /\ NewSession

NextData ==
    \/ ClientSend
    \/ ClientShutdown
    \/ Data_poll_read
    \/ Data_poll_read_full
    \/ Data_poll_read_small

SpecData == InitData /\ [][NextData]_vars

(***************************************************************************)
(* A client that sends a message body B through DATA: it doubles the dot   *)
(* of every line of B that begins with a dot (RFC 5321, 4.5.2; a line that *)
(* is a lone dot is such a line), ends the last line if B does not, and    *)
(* sends the closing dot line, as the client of tests::data does.          *)
(***************************************************************************)
\* s holds t as a contiguous run
Contains(s, t) ==
    \E i \in 0..(Len(s) - Len(t)) : SubSeq(s, i + 1, i + Len(t)) = t

\* the body with the dots at line starts doubled; bol: s starts a line
RECURSIVE escape(_, _)
escape(s, bol) ==
    IF s = <<>> THEN <<>>
    ELSE IF bol /\ Head(s) = DOT
    THEN <<DOT, DOT>> \o escape(Tail(s), FALSE)
    ELSE IF Len(s) >= 2 /\ s[1] = CR /\ s[2] = LF
    THEN <<CR, LF>> \o escape(Tail(Tail(s)), TRUE)
    ELSE <<Head(s)>> \o escape(Tail(s), FALSE)

\* what the client writes for body B
encode(B) ==
    LET e == escape(B, TRUE)
    IN  IF e = <<>> \/ EndsWith(e, <<CR, LF>>) THEN e \o <<DOT, CR, LF>>
        ELSE e \o Terminator

\* Data::new(stream) on a stream the client writes an encoded body to
InitDataCodec ==
    /\ script \in {B \in SeqsUpTo(Bytes, MaxDataLen) : ~Contains(B, Terminator)}
    /\ toSend = encode(script)
    /\ wire = <<>>
    /\ clientClosed = FALSE
    /\ buffer = <<>>
    /\ inner = "Plain"
    /\ tlsConfig = FALSE
    /\ pc = "data"
    /\ panic = "none"
    /\ out = <<>>
    /\ serverClosed = FALSE
    /\ dataState = "Start"
    /\ bdat = [kind |-> "None", limit |-> 0, last |-> FALSE]
    /\ consumed = <<>>
    /\ delivered = <<>>
    /\ pollResult = "None"
    /\ pollBytes = <<>>
    /\ incoming = NoIncoming
    /\ NewSession

SpecDataCodec == InitDataCodec /\ [][NextData]_vars

(***************************************************************************)
(* Stream items of the sessions and of the BDAT reader: a command line     *)
(* (with its CR LF) or one byte of a message body.                         *)
(***************************************************************************)
Cmd(c) == [t |-> "cmd", cmd |-> c, addr |-> "-", size |-> 0, last |-> FALSE]
BdatCmd(n, l) == [t |-> "cmd", cmd |-> "Bdat", addr |-> "-", size |-> n, last |-> l]
BodyByte(i, j) == [t |-> "byte", cmd |-> "-", addr |-> "-", size |-> i, last |-> j]

\* lines Command::try_from rejects: Error::Syntax, Error::UnrecognizedCommand
\* and Error::InvalidUtf8
ParseErrors == {"Syntax", "Unrecognized", "InvalidUtf8"}

(***************************************************************************)
(* crates/line/src/lib.rs read_line under crates/smtp/src/command.rs        *)
(* read_cmd_inner: one line off the stream and Command::try_from on it.    *)
(* Body bytes in front of a command line are part of that line, which then *)
(* is no command.                                                          *)
(***************************************************************************)
RECURSIVE LineEnd(_, _)
LineEnd(avail, n) ==
    IF n > Len(avail) THEN 0
    ELSE IF avail[n].t = "cmd" THEN n
    ELSE LineEnd(avail, n + 1)

\* Command::try_from on a line: a line that holds `.` alone is no command
try_from(item) == IF item.cmd = "Dot" THEN Cmd("Unrecognized") ELSE item

\* kind: "Pending" (no newline yet), "Eof" (read_until returned 0: None),
\* or "Line" with the items taken and what the line parses to
read_line(avail, eof) ==
    LET e == LineEnd(avail, 1)
    IN  IF e = 0
        THEN IF ~eof THEN [kind |-> "Pending", n |-> 0, cmd |-> Cmd("-")]
             ELSE IF avail = <<>> THEN [kind |-> "Eof", n |-> 0, cmd |-> Cmd("-")]
             ELSE [kind |-> "Line", n |-> Len(avail), cmd |-> Cmd("Unrecognized")]
        ELSE [kind |-> "Line", n |-> e,
              cmd |-> IF e = 1 THEN try_from(avail[1]) ELSE Cmd("Unrecognized")]

\* read_cmd_inner's reply to a line that is no command
parse_error_reply(c) ==
    CASE c = "Syntax" -> <<"501 Syntax">>
      [] c = "Unrecognized" -> <<"500 Unrecognized command">>
      [] c = "InvalidUtf8" -> <<>>

(***************************************************************************)
(* crates/smtp/src/message/bdat.rs: the BDAT reader                        *)
(***************************************************************************)
\* Inner::Read { stream: stream.take(limit), last }
BdatRead(limit, last) == [kind |-> "Read", limit |-> limit, last |-> last]
\* Inner::Write(future), the future suspended in next_bdat's read_cmd
BdatWrite == [kind |-> "Write", limit |-> 0, last |-> FALSE]
\* Inner::Write(future), the future having returned
BdatWriteDone == [kind |-> "WriteDone", limit |-> 0, last |-> FALSE]
\* Inner::None
BdatNone == [kind |-> "None", limit |-> 0, last |-> FALSE]

\* next_bdat that asks for nothing
next_bdat_request_silent == <<>>

\* next_bdat's first write: request more data
next_bdat_request == <<"250 ok">>

\* what one call of poll_read did: the reader's new state, the items taken
\* from the stream, the replies written, the Poll it returned and the bytes
\* it put into the consumer's buffer
PollResult(b, n, w, res, bytes, closed, filled) ==
    [bdat |-> b, n |-> n, w |-> w, res |-> res, bytes |-> bytes,
     closed |-> closed, filled |-> filled]

\* next_bdat that answers every command it does not want with `250 ok`
next_bdat_reply_ok(c) == <<"250 ok">>

\* next_bdat's reply to a command that is not BDAT, QUIT or RSET
next_bdat_reply(c) ==
    IF c = "Noop" THEN <<"250 ok">> ELSE <<"503 expected BDAT">>

\* Inner::Read with a slip: a read that filled nothing while limit > 0 is
\* passed on as it is
short_read_clean(b, n, w) == PollResult(b, n, w, "Ready", <<>>, FALSE, TRUE)

\* Inner::Read, the else branch: the Take filled nothing while limit > 0, the
\* transport has ended inside the chunk
short_read(b, n, w) == PollResult(b, n, w, "Err", <<>>, FALSE, TRUE)

\* Bdat::poll_read: the loop over Inner, from reader state b with n items
\* taken and replies w written so far in this call; room is what the
\* consumer's buffer can take.
RECURSIVE Bdat_poll_read(_, _, _, _, _)
Bdat_poll_read(b, n, w, room, eof) ==
    LET bufLeft == Drop(buffer, Min(n, Len(buffer)))
        allLeft == Drop(Avail, n)
        \* BufReader::poll_read copies out of its buffer and fills it only
        \* when it is empty
        readable == IF bufLeft # <<>> THEN bufLeft ELSE allLeft
    IN
    CASE b.kind = "Read" /\ b.limit > 0 ->
            IF readable # <<>>
            THEN LET m == Min(Min(b.limit, Len(readable)), room)
                 IN  PollResult(BdatRead(b.limit - m, b.last), n + m, w, "Ready",
                                SubSeq(readable, 1, m), FALSE, bufLeft = <<>>)
            ELSE IF eof
            THEN short_read(b, n, w)
            ELSE PollResult(b, n, w, "Pending", <<>>, FALSE, TRUE)
      [] b.kind = "Read" /\ b.limit = 0 ->
            IF b.last
            THEN PollResult(b, n, w, "Ready", <<>>, FALSE, n > Len(buffer))
            ELSE Bdat_poll_read(BdatWrite, n, w \o next_bdat_request, room, eof)
      [] b.kind = "Write" ->
            LET l == read_line(allLeft, eof)
                c == l.cmd
            IN  CASE l.kind = "Pending" ->
                        PollResult(b, n, w, "Pending", <<>>, FALSE, TRUE)
                  [] l.kind = "Eof" ->
                        PollResult(BdatWriteDone, n, w, "Err", <<>>, FALSE, TRUE)
                  [] l.kind = "Line" /\ c.cmd = "Bdat" ->
                        IF c.size = 0 /\ c.last
                        THEN PollResult(BdatWriteDone, n + l.n, w, "Ready", <<>>, FALSE, TRUE)
                        ELSE Bdat_poll_read(BdatRead(c.size, c.last), n + l.n, w, room, eof)
                  [] l.kind = "Line" /\ c.cmd = "Quit" ->
                        PollResult(BdatWriteDone, n + l.n, w \o <<"221 Bye">>,
                                   "Err", <<>>, TRUE, TRUE)
                  [] l.kind = "Line" /\ c.cmd = "Rset" ->
                        PollResult(BdatWriteDone, n + l.n, w, "Err", <<>>, FALSE, TRUE)
                  [] l.kind = "Line" /\ c.cmd = "Noop" ->
                        Bdat_poll_read(b, n + l.n, w \o next_bdat_reply(c.cmd), room, eof)
                  [] l.kind = "Line" /\ c.cmd \in ParseErrors ->
                        Bdat_poll_read(b, n + l.n, w \o parse_error_reply(c.cmd), room, eof)
                  [] OTHER ->
                        Bdat_poll_read(b, n + l.n, w \o next_bdat_reply(c.cmd), room, eof)
      \* the boxed future is polled again after it has returned
      [] b.kind = "WriteDone" ->
            PollResult(b, n, w, "Panic", <<>>, FALSE, FALSE)
      \* Inner::None => unreachable!()
      [] b.kind = "None" ->
            PollResult(b, n, w, "Panic", <<>>, FALSE, FALSE)

\* Bdat::take_stream: the stream, if the reader is in Read
take_stream(b) == b.kind = "Read"

\* the consumer has read the Incoming to EOF: the last read returned 0 bytes
AtBodyEof == pollResult = "Ready" /\ pollBytes = <<>>

\* what a poll_read of the BDAT reader with outcome r does to the reader,
\* the stream and the caller
Bdat_polled(r) ==
    /\ r.res = "Pending" => (pollResult # "Pending" \/ r.n > 0 \/ r.bdat # bdat)
    /\ bdat' = r.bdat
    /\ AfterRead(r.n, r.filled)
    /\ pollBytes' = r.bytes
    /\ pollResult' = r.res
    /\ out' = out \o r.w
    /\ serverClosed' = (serverClosed \/ r.closed)
    /\ pc' = CASE r.res = "Err" -> "failed"
               [] r.res = "Panic" -> "panicked"
               [] OTHER -> pc
    /\ panic' = IF r.res = "Panic" THEN "Bdat::poll_read" ELSE panic

\* one poll_read of the Incoming in BDAT mode, as read_to_end issues them
Incoming_poll_read_bdat ==
    /\ pc = "incoming"
    /\ incoming.kind = "Bdat"
    /\ ~AtBodyEof
    /\ \E room \in {1, MaxChunkSize} :
        \E r \in {Bdat_poll_read(bdat, 0, <<>>, room,
                                 clientClosed /\ toSend = <<>>)} :
            /\ Bdat_polled(r)
            /\ consumed' = consumed \o SubSeq(Avail, 1, r.n)
            /\ delivered' = delivered \o r.bytes
    /\ UNCHANGED <<clientVars, connVars, queueVars, lineVars, dataState, script,
                   callVars, sessionVars, incoming>>

\* Incoming::take_stream: Data always has its stream
Incoming_take_stream == incoming.kind = "Data" \/ take_stream(bdat)

\* Incoming::accept / Incoming::reject after the body was read to EOF:
\* take_stream().unwrap(), then write_flush of the final reply
Incoming_finish(reply, to) ==
    /\ pc = "incoming"
    /\ AtBodyEof
    /\ IF Incoming_take_stream
       THEN /\ out' = Append(out, reply)
            /\ pc' = to
            /\ panic' = panic
       ELSE /\ out' = out
            /\ pc' = "panicked"
            /\ panic' = "take_stream().unwrap() on None"
    \* the Incoming is consumed, and its reader with it
    /\ bdat' = BdatNone
    /\ dataState' = "Start"
    /\ incoming' = NoIncoming
    /\ pollResult' = "None"
    /\ pollBytes' = <<>>
    /\ UNCHANGED <<clientVars, streamVars, connVars, queueVars, lineVars, serverClosed,
                   script, consumed, delivered, callVars, sessionVars>>

Incoming_accept == Incoming_finish("250 ok", "accepted")

Incoming_reject == Incoming_finish("554 nope", "rejected")

(***************************************************************************)
(* The client of a BDAT transfer: chunk 1 was announced by the command     *)
(* that created the reader (Bdat::new(stream, size, last)), its body and   *)
(* the further chunks follow on the stream.                                *)
(***************************************************************************)
ChunkBody(i, n) == [j \in 1..n |-> BodyByte(i, j)]

\* a command that is not BDAT, sent in front of chunk i
Noise(s, i) == IF s.gap = i THEN <<Cmd(s.noise)>> ELSE <<>>

RECURSIVE ChunkItems(_, _)
ChunkItems(s, i) ==
    IF i > Len(s.sizes) THEN <<>>
    ELSE (IF i = 1 THEN <<>>
          ELSE Noise(s, i)
               \o <<BdatCmd(s.sizes[i], i = Len(s.sizes) /\ s.last)>>)
         \o ChunkBody(i, s.sizes[i])
         \o ChunkItems(s, i + 1)

\* how the client goes on after the chunks
ScriptItems(s) ==
    LET items == ChunkItems(s, 1)
    IN  CASE s.ending = "complete" -> items
          [] s.ending = "truncated" -> SubSeq(items, 1, Len(items) - 1)
          [] OTHER -> items \o <<Cmd(s.ending)>>

Scripts ==
    {s \in [sizes : UNION {[1..k -> 0..MaxChunkSize] : k \in 1..MaxChunks},
            last : BOOLEAN,
            gap : 0..MaxChunks,
            noise : {"Noop", "Data", "Syntax"},
            ending : {"complete", "truncated", "Quit", "Rset"}] :
        /\ s.gap # 1
        /\ s.gap <= Len(s.sizes)
        /\ s.gap = 0 => s.noise = "Noop"
        /\ s.gap # 0 => s.ending = "complete"
        /\ s.ending = "truncated" => ChunkItems(s, 1) # <<>>}

\* the input of C9: BDAT n1, ..., BDAT nk LAST, each followed by its body
WellFormed(s) == s.last /\ s.gap = 0 /\ s.ending = "complete"

\* the concatenation of the chunk bodies
RECURSIVE Concatenation(_, _)
Concatenation(s, i) ==
    IF i > Len(s.sizes) THEN <<>>
    ELSE ChunkBody(i, s.sizes[i]) \o Concatenation(s, i + 1)

InitBdat ==
    /\ script \in Scripts
    /\ toSend = ScriptItems(script)
    /\ wire = <<>>
    /\ clientClosed = FALSE
    /\ buffer = <<>>
    /\ inner = "Plain"
    /\ tlsConfig = FALSE
    /\ pc = "incoming"
    /\ panic = "none"
    /\ out = <<>>
    /\ serverClosed = FALSE
    /\ dataState = "Start"
    /\ bdat = BdatRead(script.sizes[1], Len(script.sizes) = 1 /\ script.last)
    /\ consumed = <<>>
    /\ delivered = <<>>
    /\ pollResult = "None"
    /\ pollBytes = <<>>
    /\ incoming = [kind |-> "Bdat",
                   envelope |-> [some |-> TRUE, from |-> "a", recipients |-> {"b"}]]
    /\ NewSession

NextBdat ==
    \/ ClientSend
    \/ ClientShutdown
    \/ Incoming_poll_read_bdat
    \/ Incoming_accept
    \/ Incoming_reject

SpecBdat == InitBdat /\ [][NextBdat]_vars

(***************************************************************************)
(* crates/line/src/stream.rs: MaybeTls, a stream that is Plain or Tls, and *)
(* Empty while an upgrade is under way.                                    *)
(***************************************************************************)
is_plain(i) == i = "Plain"

is_tls(i) == i = "Tls"

\* what the free function upgrade returns: the new stream and the result
Upgraded(i, result) == [inner |-> i, result |-> result]

\* upgrade with a slip in the failure arm: the plaintext stream the handshake
\* hands back is not put back
upgrade_drops_plain(i, handshake) ==
    CASE i = "Plain" /\ handshake = "Ok" -> Upgraded("Tls", "Ok")
      [] i = "Plain" /\ handshake = "Err" -> Upgraded("Empty", "Err")
      [] i = "Tls" -> Upgraded("Tls", "Ok")
      [] i = "Empty" -> Upgraded("Empty", "Panic")

\* the free function upgrade, given how T::upgrade (the handshake) ends
upgrade(i, handshake) ==
    CASE i = "Plain" /\ handshake = "Ok" -> Upgraded("Tls", "Ok")
      [] i = "Plain" /\ handshake = "Err" -> Upgraded("Plain", "Err")
      [] i = "Tls" -> Upgraded("Tls", "Ok")
      [] i = "Empty" -> Upgraded("Empty", "Panic")

\* the unreachable!() of an Inner::Empty arm
Unreachable == "entered unreachable code"

\* MaybeTls::upgrade up to its first suspension: mem::replace takes the
\* Inner out and leaves Empty; on Plain the handshake is now pending, on Tls
\* (and on Empty) the inner future ends at once
MaybeTls_upgrade ==
    /\ pc = "caller"
    /\ IF inner = "Plain"
       THEN /\ taken' = inner
            /\ inner' = "Empty"
            /\ ret' = <<"upgrade", "Pending">>
            /\ pc' = "upgrading"
            /\ panic' = panic
       ELSE \E u \in {upgrade(inner, "Ok")} :
            /\ taken' = "None"
            /\ inner' = IF u.result = "Panic" THEN "Empty" ELSE u.inner
            /\ ret' = <<"upgrade", u.result>>
            /\ pc' = IF u.result = "Panic" THEN "panicked" ELSE pc
            /\ panic' = IF u.result = "Panic" THEN Unreachable ELSE panic
    /\ UNCHANGED <<clientVars, streamVars, tlsConfig, queueVars, lineVars, wireVars, bodyVars,
                   readVars, sessionVars, incoming>>

\* the handshake can succeed only if it finds nothing but handshake records:
\* what the client sent in plaintext before it is taken for one
HandshakeOutcomes == IF wire = <<>> THEN {"Ok", "Err"} ELSE {"Err"}

\* the pending handshake ends and MaybeTls::upgrade returns
MaybeTls_upgrade_done ==
    /\ pc = "upgrading"
    /\ \E handshake \in HandshakeOutcomes :
        \E u \in {upgrade(taken, handshake)} :
            /\ inner' = u.inner
            /\ ret' = <<"upgrade", u.result>>
    /\ taken' = "None"
    /\ wire' = <<>>
    /\ pc' = "caller"
    /\ UNCHANGED <<clientVars, buffer, tlsConfig, queueVars, lineVars, panic, wireVars, bodyVars,
                   readVars, sessionVars, incoming>>

\* the future of MaybeTls::upgrade is dropped while the handshake is
\* pending: the Inner it took goes with it and `*self = stream` never runs
MaybeTls_upgrade_dropped ==
    /\ pc = "upgrading"
    /\ taken' = "None"
    /\ ret' = <<"upgrade", "Dropped">>
    /\ pc' = "caller"
    /\ UNCHANGED <<clientVars, streamVars, connVars, queueVars, lineVars, panic, wireVars, bodyVars,
                   readVars, sessionVars, incoming>>

MaybeTls_is_plain ==
    /\ pc = "caller"
    /\ ret' = <<"is_plain", is_plain(inner)>>
    /\ UNCHANGED <<clientVars, streamVars, connVars, queueVars, lineVars, pc, panic, wireVars,
                   bodyVars, readVars, taken, sessionVars, incoming>>

MaybeTls_is_tls ==
    /\ pc = "caller"
    /\ ret' = <<"is_tls", is_tls(inner)>>
    /\ UNCHANGED <<clientVars, streamVars, connVars, queueVars, lineVars, pc, panic, wireVars,
                   bodyVars, readVars, taken, sessionVars, incoming>>

\* a poll_* on Inner::Empty
MaybeTls_unreachable(op) ==
    /\ pc' = "panicked"
    /\ panic' = Unreachable
    /\ ret' = <<op, "Panic">>
    /\ UNCHANGED <<streamVars, wireVars, readVars>>

\* AsyncRead::poll_read with room for one byte
MaybeTls_poll_read ==
    /\ pc = "caller"
    /\ IF inner = "Empty" THEN MaybeTls_unreachable("read")
       ELSE /\ wire # <<>> \/ (clientClosed /\ toSend = <<>>)
            /\ wire' = IF wire = <<>> THEN wire ELSE Tail(wire)
            /\ pollBytes' = IF wire = <<>> THEN <<>> ELSE <<Head(wire)>>
            /\ pollResult' = "Ready"
            /\ consumed' = consumed \o pollBytes'
            /\ delivered' = delivered \o pollBytes'
            /\ ret' = <<"read", "Ok">>
            /\ UNCHANGED <<buffer, wireVars, pc, panic>>
    /\ UNCHANGED <<clientVars, connVars, queueVars, lineVars, bodyVars, taken, sessionVars, incoming>>

\* AsyncWrite::poll_write of one byte
MaybeTls_poll_write ==
    /\ pc = "caller"
    /\ IF inner = "Empty" THEN MaybeTls_unreachable("write")
       ELSE /\ Len(out) < MaxStreamLen
            /\ out' = IF serverClosed THEN out ELSE Append(out, "X")
            /\ ret' = <<"write", IF serverClosed THEN "Err" ELSE "Ok">>
            /\ UNCHANGED <<streamVars, serverClosed, readVars, pc, panic>>
    /\ UNCHANGED <<clientVars, connVars, queueVars, lineVars, bodyVars, taken, sessionVars, incoming>>

\* AsyncWrite::poll_flush
MaybeTls_poll_flush ==
    /\ pc = "caller"
    /\ IF inner = "Empty" THEN MaybeTls_unreachable("flush")
       ELSE /\ ret' = <<"flush", IF serverClosed THEN "Err" ELSE "Ok">>
            /\ UNCHANGED <<streamVars, wireVars, readVars, pc, panic>>
    /\ UNCHANGED <<clientVars, connVars, queueVars, lineVars, bodyVars, taken, sessionVars, incoming>>

\* AsyncWrite::poll_shutdown
MaybeTls_poll_shutdown ==
    /\ pc = "caller"
    /\ IF inner = "Empty" THEN MaybeTls_unreachable("shutdown")
       ELSE /\ serverClosed' = TRUE
            /\ ret' = <<"shutdown", "Ok">>
            /\ UNCHANGED <<streamVars, out, readVars, pc, panic>>
    /\ UNCHANGED <<clientVars, connVars, queueVars, lineVars, bodyVars, taken, sessionVars, incoming>>

\* MaybeTls::from_plain or MaybeTls::from_tls on a stream the peer writes
\* `toSend` to
InitStream ==
    /\ inner \in {"Plain", "Tls"}
    /\ toSend \in SeqsUpTo({"X", LF}, MaxStreamLen)
    /\ wire = <<>>
    /\ clientClosed = FALSE
    /\ buffer = <<>>
    /\ tlsConfig = TRUE
    /\ pc = "caller"
    /\ panic = "none"
    /\ out = <<>>
    /\ serverClosed = FALSE
    /\ dataState = "Start"
    /\ bdat = BdatNone
    /\ script = <<>>
    /\ consumed = <<>>
    /\ delivered = <<>>
    /\ pollResult = "None"
    /\ pollBytes = <<>>
    /\ incoming = NoIncoming
    /\ NewSession

NextStream ==
    \/ ClientSend
    \/ ClientShutdown
    \/ MaybeTls_upgrade
    \/ MaybeTls_upgrade_done
    \/ MaybeTls_upgrade_dropped
    \/ MaybeTls_is_plain
    \/ MaybeTls_is_tls
    \/ MaybeTls_poll_read
    \/ MaybeTls_poll_write
    \/ MaybeTls_poll_flush
    \/ MaybeTls_poll_shutdown

SpecStream == InitStream /\ [][NextStream]_vars

(***************************************************************************)
(* C8: once the caller has read an Incoming to EOF, accept() writes        *)
(* exactly `250 ok` and reject() exactly `554 nope`, and neither panics,   *)
(* however the body ended (here: every way a BDAT body can end).           *)
(***************************************************************************)
C8_FinishAfterEof ==
    /\ panic = "none"
    /\ pc = "accepted" => out[Len(out)] = "250 ok"
    /\ pc = "rejected" => out[Len(out)] = "554 nope"

(***************************************************************************)
(* C9: for a body sent as BDAT n1, ..., BDAT nk LAST, each command         *)
(* followed by exactly its ni bytes, the reader delivers the concatenation *)
(* of the chunk bodies and then EOF, and writes one `250 ok` after each    *)
(* chunk but the last: none before chunk 1 has been read, k-1 at EOF, and  *)
(* nothing else until accept or reject.                                    *)
(***************************************************************************)
\* the number of bytes in chunks 1..i
RECURSIVE BytesUpTo(_, _)
BytesUpTo(s, i) == IF i = 0 THEN 0 ELSE s.sizes[i] + BytesUpTo(s, i - 1)

\* the chunks but the last that lie within the first n bytes of the body
ChunksWithin(s, n) == {i \in 1..(Len(s.sizes) - 1) : BytesUpTo(s, i) <= n}

C9_BdatConcatenation ==
    (WellFormed(script) /\ pc \in {"incoming", "failed"}) =>
        /\ pc = "incoming"
        /\ pollResult # "Err"
        /\ IsPrefix(delivered, Concatenation(script, 1))
        /\ \A i \in 1..Len(out) : out[i] = "250 ok"
        /\ Len(out) <= Cardinality(ChunksWithin(script, Len(delivered)))
        /\ AtBodyEof =>
            /\ delivered = Concatenation(script, 1)
            /\ Len(out) = Len(script.sizes) - 1

\* three chunks with a body each, read to EOF
C9_Witness ==
    /\ WellFormed(script)
    /\ Len(script.sizes) = 3
    /\ \A i \in 1..3 : script.sizes[i] > 0
    /\ pc = "incoming"
    /\ AtBodyEof
    /\ out = <<"250 ok", "250 ok">>

(***************************************************************************)
(* C10: when the DATA reader consumes CR LF '.' CR LF it hands only the    *)
(* leading CR LF to the consumer and enters Eof, so the '.' CR LF of the   *)
(* terminator is never delivered; every read after Eof returns 0 bytes     *)
(* and takes nothing from the transport.                                   *)
(***************************************************************************)
C10_TerminatorNotDelivered ==
    /\ [](dataState = "Eof" =>
            /\ EndsWith(consumed, Terminator)
            /\ EndsWith(delivered, <<CR, LF>>))
    /\ [][/\ (dataState # "Eof" /\ dataState' = "Eof") =>
                /\ pollBytes' = <<CR, LF>>
                /\ delivered' = delivered \o <<CR, LF>>
          /\ dataState = "Eof" =>
                /\ dataState' = "Eof"
                /\ consumed' = consumed
                /\ delivered' = delivered
                /\ buffer' = buffer
                /\ Len(wire') >= Len(wire)
                /\ <<pollResult, pollBytes>>' # <<pollResult, pollBytes>> =>
                        (pollResult' = "Ready" /\ pollBytes' = <<>>)]_vars

\* a read after Eof that returned nothing while bytes were waiting
C10_Witness ==
    /\ dataState = "Eof"
    /\ pollResult = "Ready"
    /\ pollBytes = <<>>
    /\ Avail # <<>>

(***************************************************************************)
(* crates/smtp/src/server/session.rs: the SMTP session, driven as in       *)
(* handle_connection (src/main.rs): next_message, read the Incoming to its *)
(* end, accept, again.  One action is one command handled: the line read,  *)
(* the fields changed, the reply written.                                  *)
(***************************************************************************)
Addrs == {"a", "b"}
\* the domains a client names in HELO and EHLO
Domains == {"d1", "d2"}
\* HELO d and EHLO d: the field addr holds the argument of the command
HeloCmd(c, d) == [t |-> "cmd", cmd |-> c, addr |-> d, size |-> 0, last |-> FALSE]
MailCmd(a) == [t |-> "cmd", cmd |-> "Mail", addr |-> a, size |-> 0, last |-> FALSE]
RcptCmd(a) == [t |-> "cmd", cmd |-> "Rcpt", addr |-> a, size |-> 0, last |-> FALSE]

\* the lines a client can send: the commands, three kinds of lines that are
\* no command, and the line `.`
SmtpItems ==
    {Cmd(c) : c \in {"Data", "Rset", "Noop", "Quit", "Starttls", "Auth",
                     "Dot"} \cup ParseErrors}
    \cup {HeloCmd(c, d) : c \in {"Helo", "Ehlo"}, d \in Domains}
    \cup {MailCmd(a) : a \in Addrs}
    \cup {RcptCmd(a) : a \in Addrs}
    \cup {BdatCmd(n, l) : n \in 0..MaxPipelinedChunk, l \in BOOLEAN}

\* the client, having read the replies that have come, sends a line; after
\* BDAT n it owes the n bytes of the chunk
ClientSendCmd ==
    /\ ~Stopped
    /\ ~clientClosed
    /\ toSend = <<>>
    /\ out = <<>>
    /\ Len(Avail) < MaxPipeline
    /\ \E item \in SmtpItems :
        /\ wire' = Append(wire, item)
        /\ toSend' = IF item.cmd = "Bdat" THEN ChunkBody(0, item.size) ELSE <<>>
    /\ UNCHANGED <<clientClosed, buffer, connVars, queueVars, lineVars, wireVars, pc, panic,
                   bodyVars, readVars, callVars, sessionVars, incoming>>

\* the client reads the replies written so far
ClientRecv ==
    /\ out # <<>>
    /\ out' = <<>>
    /\ UNCHANGED <<clientVars, streamVars, connVars, queueVars, lineVars, serverClosed, pc, panic,
                   bodyVars, readVars, callVars, sessionVars, incoming>>

\* read_cmd: the next line of the stream
NextLine == read_line(Avail, clientClosed /\ toSend = <<>>)

\* read_cmd returns command c; the client has taken the earlier replies
ReadCmd(c) ==
    /\ pc = "session"
    /\ greeted
    /\ out = <<>>
    /\ NextLine.kind = "Line"
    /\ NextLine.cmd.cmd = c

\* the stream after read_until took the line: BufReader fills its buffer
\* when the buffer holds no whole line
TakeLine == AfterRead(NextLine.n, LineEnd(buffer, 1) = 0)

\* write_flush of a reply, after which the session is at `to`; on a stream
\* whose write side is shut down the write fails and next_message returns
\* the error
Reply(r, to) ==
    IF serverClosed
    THEN /\ out' = out
         /\ pc' = "failed"
    ELSE /\ out' = out \o r
         /\ pc' = to

\* Session::greet, once per session
Session_greet ==
    /\ pc = "session"
    /\ ~greeted
    /\ Reply(<<"220 hostname">>, "session")
    /\ greeted' = ~serverClosed
    /\ UNCHANGED <<clientVars, streamVars, connVars, queueVars, lineVars, serverClosed, panic,
                   bodyVars, readVars, callVars, envelope, helo_domain,
                   identity, sessionState, validated, incoming>>

\* Command::Helo without reset_mail_txn
Session_helo_keeps_txn ==
    /\ ReadCmd("Helo")
    /\ TakeLine
    /\ envelope' = envelope
    /\ helo_domain' = NextLine.cmd.addr
    /\ Reply(<<"250 hello">>, "session")
    /\ UNCHANGED <<clientVars, connVars, queueVars, lineVars, serverClosed, panic, bodyVars,
                   readVars, callVars, identity, greeted, sessionState,
                   validated, incoming>>

\* Command::Helo
Session_helo ==
    /\ ReadCmd("Helo")
    /\ TakeLine
    /\ envelope' = NoEnvelope
    /\ helo_domain' = NextLine.cmd.addr
    /\ Reply(<<"250 hello">>, "session")
    /\ UNCHANGED <<clientVars, connVars, queueVars, lineVars, serverClosed, panic, bodyVars,
                   readVars, callVars, identity, greeted, sessionState,
                   validated, incoming>>

\* ehlo::Response: STARTTLS is offered on a plaintext stream with TLS
\* configured
ehlo_response ==
    IF tlsConfig /\ is_plain(inner)
    THEN <<"250 8BITMIME SMTPUTF8 CHUNKING STARTTLS AUTH">>
    ELSE <<"250 8BITMIME SMTPUTF8 CHUNKING AUTH">>

\* Command::Ehlo: Session::ehlo
Session_ehlo ==
    /\ ReadCmd("Ehlo")
    /\ TakeLine
    /\ envelope' = NoEnvelope
    /\ helo_domain' = NextLine.cmd.addr
    /\ Reply(ehlo_response, "session")
    /\ UNCHANGED <<clientVars, connVars, queueVars, lineVars, serverClosed, panic, bodyVars,
                   readVars, callVars, identity, greeted, sessionState,
                   validated, incoming>>

\* Command::Mail without the check for a transaction under way
Session_mail_restarts ==
    /\ ReadCmd("Mail")
    /\ TakeLine
    /\ IF helo_domain = "None"
       THEN /\ Reply(<<"503 say HELO first">>, "session")
            /\ envelope' = envelope
       ELSE /\ envelope' = [some |-> TRUE, from |-> NextLine.cmd.addr,
                            recipients |-> {}]
            /\ Reply(<<"250 ok">>, "session")
    /\ UNCHANGED <<clientVars, connVars, queueVars, lineVars, serverClosed, panic, bodyVars,
                   readVars, callVars, helo_domain, identity, greeted,
                   sessionState, validated, incoming>>

\* Command::Mail
Session_mail ==
    /\ ReadCmd("Mail")
    /\ TakeLine
    /\ IF helo_domain = "None"
       THEN /\ Reply(<<"503 say HELO first">>, "session")
            /\ envelope' = envelope
       ELSE IF envelope.some
       THEN /\ Reply(<<"501 transaction already started">>, "session")
            /\ envelope' = envelope
       ELSE /\ envelope' = [some |-> TRUE, from |-> NextLine.cmd.addr,
                            recipients |-> {}]
            /\ Reply(<<"250 ok">>, "session")
    /\ UNCHANGED <<clientVars, connVars, queueVars, lineVars, serverClosed, panic, bodyVars,
                   readVars, callVars, helo_domain, identity, greeted,
                   sessionState, validated, incoming>>

\* Command::Rcpt with the recipient assigned instead of inserted
Session_rcpt_replaces ==
    /\ ReadCmd("Rcpt")
    /\ TakeLine
    /\ IF ~envelope.some
       THEN /\ Reply(<<"503 need MAIL command">>, "session")
            /\ envelope' = envelope
       ELSE /\ envelope' = [envelope EXCEPT
                                !.recipients = {NextLine.cmd.addr}]
            /\ Reply(<<"250 ok">>, "session")
    /\ UNCHANGED <<clientVars, connVars, queueVars, lineVars, serverClosed, panic, bodyVars,
                   readVars, callVars, helo_domain, identity, greeted,
                   sessionState, validated, incoming>>

\* Command::Rcpt
Session_rcpt ==
    /\ ReadCmd("Rcpt")
    /\ TakeLine
    /\ IF ~envelope.some
       THEN /\ Reply(<<"503 need MAIL command">>, "session")
            /\ envelope' = envelope
       ELSE /\ envelope' = [envelope EXCEPT
                                !.recipients = @ \cup {NextLine.cmd.addr}]
            /\ Reply(<<"250 ok">>, "session")
    /\ UNCHANGED <<clientVars, connVars, queueVars, lineVars, serverClosed, panic, bodyVars,
                   readVars, callVars, helo_domain, identity, greeted,
                   sessionState, validated, incoming>>

\* what Session::take_envelope does with self.envelope: the envelope it
\* returns (none: NoEnvelope), the reply it writes, and the envelope it
\* leaves in the session once the reply is written
Taken(result, reply, left) == [result |-> result, reply |-> reply, left |-> left]

\* take_envelope without the arm for an envelope that has no recipients
take_envelope_unguarded(env) ==
    CASE ~env.some -> Taken(NoEnvelope, <<"503 need MAIL command">>, NoEnvelope)
      [] OTHER -> Taken(env, <<>>, NoEnvelope)

\* take_envelope without the line that puts an envelope without recipients
\* back
take_envelope_drops(env) ==
    CASE ~env.some -> Taken(NoEnvelope, <<"503 need MAIL command">>, NoEnvelope)
      [] env.some /\ env.recipients = {} ->
            Taken(NoEnvelope, <<"554 no recipients">>, NoEnvelope)
      [] OTHER -> Taken(env, <<>>, NoEnvelope)

\* Session::take_envelope
take_envelope(env) ==
    CASE ~env.some -> Taken(NoEnvelope, <<"503 need MAIL command">>, NoEnvelope)
      [] env.some /\ env.recipients = {} ->
            Taken(NoEnvelope, <<"554 no recipients">>, env)
      [] OTHER -> Taken(env, <<>>, NoEnvelope)

\* take_envelope returned None: its reply is written, and the envelope it
\* took is put back unless the write failed
Session_no_envelope(t) ==
    /\ Reply(t.reply, "session")
    /\ envelope' = IF serverClosed THEN NoEnvelope ELSE t.left
    /\ UNCHANGED <<bodyVars, pollResult, pollBytes, incoming>>

\* Command::Data
Session_data ==
    /\ ReadCmd("Data")
    /\ TakeLine
    /\ \E t \in {take_envelope(envelope)} :
        IF t.result.some
        THEN /\ Reply(<<"354 go ahead">>, "incoming")
             /\ envelope' = NoEnvelope
             /\ incoming' = IF serverClosed THEN incoming
                            ELSE [kind |-> "Data", envelope |-> t.result]
             /\ dataState' = "Start"
             /\ pollResult' = "None"
             /\ pollBytes' = <<>>
             /\ UNCHANGED <<bdat, script>>
        ELSE Session_no_envelope(t)
    /\ UNCHANGED <<clientVars, connVars, queueVars, lineVars, serverClosed, panic, consumed,
                   delivered, callVars, helo_domain, identity, greeted,
                   sessionState, validated>>

\* Command::Bdat
Session_bdat ==
    /\ ReadCmd("Bdat")
    /\ TakeLine
    /\ \E t \in {take_envelope(envelope)} :
        IF t.result.some
        THEN /\ pc' = "incoming"
             /\ out' = out
             /\ envelope' = NoEnvelope
             /\ incoming' = [kind |-> "Bdat", envelope |-> t.result]
             /\ bdat' = BdatRead(NextLine.cmd.size, NextLine.cmd.last)
             /\ pollResult' = "None"
             /\ pollBytes' = <<>>
             /\ UNCHANGED <<dataState, script>>
        ELSE Session_no_envelope(t)
    /\ UNCHANGED <<clientVars, connVars, queueVars, lineVars, serverClosed, panic, consumed,
                   delivered, callVars, helo_domain, identity, greeted,
                   sessionState, validated>>

\* Command::Rset
Session_rset ==
    /\ ReadCmd("Rset")
    /\ TakeLine
    /\ envelope' = NoEnvelope
    /\ Reply(<<"250 ok">>, "session")
    /\ UNCHANGED <<clientVars, connVars, queueVars, lineVars, serverClosed, panic, bodyVars,
                   readVars, callVars, helo_domain, identity, greeted,
                   sessionState, validated, incoming>>

\* Command::Quit: bye writes `221 Bye` and shuts the write side down; the
\* loop of next_message goes on
Session_quit ==
    /\ ReadCmd("Quit")
    /\ TakeLine
    /\ Reply(<<"221 Bye">>, "session")
    /\ serverClosed' = TRUE
    /\ UNCHANGED <<clientVars, connVars, queueVars, lineVars, panic, bodyVars, readVars, callVars,
                   sessionVars, incoming>>

\* Command::Noop
Session_noop ==
    /\ ReadCmd("Noop")
    /\ TakeLine
    /\ Reply(<<"250 ok">>, "session")
    /\ UNCHANGED <<clientVars, connVars, queueVars, lineVars, serverClosed, panic, bodyVars,
                   readVars, callVars, sessionVars, incoming>>

\* Command::Auth: no exchange with the client and no call of the Validator
Session_auth ==
    /\ ReadCmd("Auth")
    /\ TakeLine
    /\ IF envelope.some
       THEN Reply(<<"503 transaction already started">>, "session")
       ELSE IF identity # "None"
       THEN Reply(<<"503 already authenticated">>, "session")
       ELSE Reply(<<"235 welcome">>, "session")
    /\ UNCHANGED <<clientVars, connVars, queueVars, lineVars, serverClosed, panic, bodyVars,
                   readVars, callVars, sessionVars, incoming>>

\* read_cmd_inner on a line that is no command: its reply, and the next line
Session_no_command ==
    /\ pc = "session"
    /\ greeted
    /\ out = <<>>
    /\ NextLine.kind = "Line"
    /\ NextLine.cmd.cmd \in ParseErrors
    /\ TakeLine
    /\ Reply(parse_error_reply(NextLine.cmd.cmd), "session")
    /\ UNCHANGED <<clientVars, connVars, queueVars, lineVars, serverClosed, panic, bodyVars,
                   readVars, callVars, sessionVars, incoming>>

\* read_cmd returns None at the end of the stream: next_message returns
\* Ok(None)
Session_eof ==
    /\ pc = "session"
    /\ greeted
    /\ NextLine.kind = "Eof"
    /\ pc' = "closed"
    /\ UNCHANGED <<clientVars, streamVars, connVars, queueVars, lineVars, wireVars, panic, bodyVars,
                   readVars, callVars, sessionVars, incoming>>

\* read_cmd times out waiting for a line
Session_timeout ==
    /\ pc = "session"
    /\ greeted
    /\ NextLine.kind = "Pending"
    /\ pc' = "failed"
    /\ buffer' = <<>>
    /\ wire' = <<>>
    /\ UNCHANGED <<clientVars, connVars, queueVars, lineVars, wireVars, panic, bodyVars,
                   readVars, callVars, sessionVars, incoming>>

\* Command::Starttls: Session::starttls up to the handshake.  After
\* `220 Go ahead` Connection::upgrade asserts that the BufReader holds
\* nothing, then MaybeTls::upgrade takes the Inner out.
Session_starttls ==
    /\ ReadCmd("Starttls")
    /\ TakeLine
    /\ IF is_tls(inner)
       THEN /\ Reply(<<"454 Already using TLS">>, "session")
            /\ UNCHANGED <<inner, taken, panic>>
       ELSE IF ~tlsConfig
       THEN /\ Reply(<<"454 TLS not available">>, "session")
            /\ UNCHANGED <<inner, taken, panic>>
       ELSE IF serverClosed
       THEN /\ Reply(<<"220 Go ahead">>, "session")
            /\ UNCHANGED <<inner, taken, panic>>
       ELSE IF buffer' # <<>>
       THEN /\ out' = Append(out, "220 Go ahead")
            /\ pc' = "panicked"
            /\ panic' = "buffer must be empty"
            /\ UNCHANGED <<inner, taken>>
       ELSE /\ out' = Append(out, "220 Go ahead")
            /\ pc' = "starttls"
            /\ taken' = inner
            /\ inner' = "Empty"
            /\ panic' = panic
    /\ UNCHANGED <<clientVars, tlsConfig, queueVars, lineVars, serverClosed, bodyVars, readVars,
                   ret, sessionVars, incoming>>

\* Session::starttls without the reset of the mail transaction after the
\* handshake
Session_starttls_done_keeps_txn ==
    /\ pc = "starttls"
    /\ \E handshake \in HandshakeOutcomes :
        \E u \in {upgrade(taken, handshake)} :
            /\ inner' = u.inner
            /\ IF u.result = "Ok"
               THEN /\ helo_domain' = "None"
                    /\ identity' = "None"
                    /\ envelope' = envelope
                    /\ pc' = "session"
               ELSE /\ UNCHANGED <<helo_domain, identity, envelope>>
                    /\ pc' = "failed"
            /\ ret' = <<"upgrade", u.result>>
    /\ taken' = "None"
    /\ wire' = <<>>
    /\ UNCHANGED <<clientVars, buffer, tlsConfig, queueVars, lineVars, wireVars, panic, bodyVars,
                   readVars, greeted, sessionState, validated, incoming>>

\* the handshake ends: on Ok starttls clears the session, on Err
\* next_message returns the error
Session_starttls_done ==
    /\ pc = "starttls"
    /\ \E handshake \in HandshakeOutcomes :
        \E u \in {upgrade(taken, handshake)} :
            /\ inner' = u.inner
            /\ IF u.result = "Ok"
               THEN /\ helo_domain' = "None"
                    /\ identity' = "None"
                    /\ envelope' = NoEnvelope
                    /\ pc' = "session"
               ELSE /\ UNCHANGED <<helo_domain, identity, envelope>>
                    /\ pc' = "failed"
            /\ ret' = <<"upgrade", u.result>>
    /\ taken' = "None"
    /\ wire' = <<>>
    /\ UNCHANGED <<clientVars, buffer, tlsConfig, queueVars, lineVars, wireVars, panic, bodyVars,
                   readVars, greeted, sessionState, validated, incoming>>

\* the bytes of a stream item
ItemBytes(item) ==
    CASE item.t = "byte" -> <<"X">>
      [] item.cmd = "Dot" -> <<DOT, CR, LF>>
      [] OTHER -> <<"X", CR, LF>>

\* State::advance over the bytes of one item
RECURSIVE Data_advance_item(_, _, _)
Data_advance_item(st, bytes, emitted) ==
    IF bytes = <<>> \/ st = "Eof"
    THEN [state |-> st, out |-> emitted]
    ELSE LET r == advance(st, Head(bytes))
         IN  Data_advance_item(r.state, Tail(bytes), emitted \o r.out)

\* the poll_reads of an Incoming in DATA mode that take one item off the
\* stream, or find nothing to take
Message_poll_read_data ==
    /\ pc = "incoming"
    /\ incoming.kind = "Data"
    /\ ~AtBodyEof
    /\ IF dataState = "Eof"
       THEN /\ pollResult' = "Ready"
            /\ pollBytes' = <<>>
            /\ UNCHANGED <<streamVars, dataState>>
       ELSE IF Avail = <<>>
       THEN /\ (clientClosed /\ toSend = <<>>) \/ pollResult # "Pending"
            /\ pollResult' = IF clientClosed /\ toSend = <<>>
                             THEN "Ready" ELSE "Pending"
            /\ pollBytes' = <<>>
            /\ UNCHANGED <<streamVars, dataState>>
       ELSE \E r \in {Data_advance_item(dataState, ItemBytes(Avail[1]), <<>>)} :
            /\ dataState' = r.state
            /\ pollResult' = "Ready"
            /\ pollBytes' = r.out
            /\ AfterRead(1, buffer = <<>>)
    /\ UNCHANGED <<clientVars, connVars, queueVars, lineVars, wireVars, pc, panic, bdat, script,
                   consumed, delivered, callVars, sessionVars, incoming>>

\* one poll_read of an Incoming in BDAT mode
Message_poll_read_bdat ==
    /\ pc = "incoming"
    /\ incoming.kind = "Bdat"
    /\ ~AtBodyEof
    /\ out = <<>>
    /\ \E r \in {Bdat_poll_read(bdat, 0, <<>>, MaxPipelinedChunk,
                               clientClosed /\ toSend = <<>>)} :
        Bdat_polled(r)
    /\ UNCHANGED <<clientVars, connVars, queueVars, lineVars, dataState, script, consumed,
                   delivered, callVars, sessionVars, incoming>>

\* handle_connection: after accept, the next call of next_message
Session_next_message ==
    /\ pc \in {"accepted", "rejected"}
    /\ pc' = "session"
    /\ UNCHANGED <<clientVars, streamVars, connVars, queueVars, lineVars, wireVars, panic, bodyVars,
                   readVars, callVars, sessionVars, incoming>>

\* Session::new on a stream that is plaintext or TLS from the start
InitSmtp ==
    /\ inner \in {"Plain", "Tls"}
    /\ tlsConfig \in BOOLEAN
    /\ toSend = <<>>
    /\ wire = <<>>
    /\ clientClosed = FALSE
    /\ buffer = <<>>
    /\ pc = "session"
    /\ panic = "none"
    /\ out = <<>>
    /\ serverClosed = FALSE
    /\ dataState = "Start"
    /\ bdat = BdatNone
    /\ script = <<>>
    /\ consumed = <<>>
    /\ delivered = <<>>
    /\ pollResult = "None"
    /\ pollBytes = <<>>
    /\ incoming = NoIncoming
    /\ NewSession

NextSmtp ==
    \/ ClientSendCmd
    \/ ClientSend
    \/ ClientShutdown
    \/ ClientRecv
    \/ Session_greet
    \/ Session_helo
    \/ Session_ehlo
    \/ Session_mail
    \/ Session_rcpt
    \/ Session_data
    \/ Session_bdat
    \/ Session_rset
    \/ Session_quit
    \/ Session_noop
    \/ Session_auth
    \/ Session_no_command
    \/ Session_eof
    \/ Session_timeout
    \/ Session_starttls
    \/ Session_starttls_done
    \/ Message_poll_read_data
    \/ Message_poll_read_bdat
    \/ Incoming_accept
    \/ Incoming_reject
    \/ Session_next_message

SpecSmtp == InitSmtp /\ [][NextSmtp]_vars

(***************************************************************************)
(* crates/imap/src/server/session.rs: the IMAP session.  One action is one *)
(* command handled by next_op.  Stream items are tagged command lines and  *)
(* the lines of a SASL exchange.                                           *)
(***************************************************************************)
ImapCmd(c, a) == [t |-> "cmd", cmd |-> c, addr |-> a, size |-> 0, last |-> FALSE]

\* what a client can present: two sets of credentials the Validator knows,
\* one it rejects, and one it fails on
Credentials == {"alice", "bob", "wrong", "broken"}

\* a SASL response that is not the base64 of PLAIN credentials
Undecodable == "undecodable"

\* two of the commands that parse and whose arm in next_op is todo!()
TodoCommands == {"Select", "Close"}

ImapItems ==
    {ImapCmd(c, "-") : c \in {"Capability", "Noop", "Logout", "Starttls",
                              "Enable", "Bad", "InvalidUtf8"}
                             \cup TodoCommands}
    \cup {ImapCmd("Enable", "UTF8=ACCEPT")}
    \cup {ImapCmd("Login", c) : c \in Credentials}
    \cup {ImapCmd("Authenticate", r) : r \in Credentials \cup {Undecodable, "None"}}
    \cup {ImapCmd("Response", r) : r \in Credentials \cup {Undecodable}}

\* the client, having read the replies that have come, sends a line
ClientSendImap ==
    /\ ~Stopped
    /\ ~clientClosed
    /\ out = <<>>
    /\ Len(Avail) < MaxPipeline
    /\ \E item \in ImapItems : wire' = Append(wire, item)
    /\ UNCHANGED <<clientVars, buffer, connVars, queueVars, lineVars, wireVars, pc, panic,
                   bodyVars, readVars, callVars, sessionVars, incoming>>

\* Validator::validate
validate(c) ==
    CASE c \in {"alice", "bob"} -> [ok |-> TRUE, identity |-> c, err |-> "-"]
      [] c = "wrong" -> [ok |-> FALSE, identity |-> "None", err |-> "InvalidCredentials"]
      [] OTHER -> [ok |-> FALSE, identity |-> "None", err |-> "Unknown"]

\* Authenticator::eat for PLAIN: decode the response, then validate
eat(response) ==
    IF response \in Credentials THEN validate(response)
    ELSE [ok |-> FALSE, identity |-> "None", err |-> "Decode"]

\* StatusResponse::from with ValidationError::Unknown answered like
\* InvalidCredentials
status_response_no(err) ==
    CASE err = "InvalidCredentials" -> "NO invalid credentials"
      [] err = "Unknown" -> "NO invalid credentials"
      [] err = "Decode" -> "BAD failed to decode response"

\* StatusResponse::from(ValidationError) and ::from(MechanismError)
status_response(err) ==
    CASE err = "InvalidCredentials" -> "NO invalid credentials"
      [] err = "Unknown" -> "BAD invalid identity"
      [] err = "Decode" -> "BAD failed to decode response"

\* Session::capabilities with the check of the TLS configuration moved out of
\* the branch for a plaintext connection
capabilities_by_config ==
    {"IMAP4rev1", "IMAP4rev2", "AUTH=PLAIN", "SASL-IR"}
    \cup (IF is_plain(inner) THEN {"LOGINDISABLED"} ELSE {})
    \cup (IF tlsConfig THEN {"STARTTLS"} ELSE {})

\* Session::capabilities
capabilities ==
    {"IMAP4rev1", "IMAP4rev2", "AUTH=PLAIN", "SASL-IR"}
    \cup (IF is_plain(inner) THEN {"LOGINDISABLED"} ELSE {})
    \cup (IF is_plain(inner) /\ tlsConfig THEN {"STARTTLS"} ELSE {})

\* the capability data of a greeting or a CAPABILITY reply
capability_data(caps) ==
    CASE "STARTTLS" \in caps /\ "LOGINDISABLED" \in caps ->
            "IMAP4rev1 IMAP4rev2 AUTH=PLAIN SASL-IR LOGINDISABLED STARTTLS"
      [] "STARTTLS" \notin caps /\ "LOGINDISABLED" \in caps ->
            "IMAP4rev1 IMAP4rev2 AUTH=PLAIN SASL-IR LOGINDISABLED"
      [] "STARTTLS" \in caps /\ "LOGINDISABLED" \notin caps ->
            "IMAP4rev1 IMAP4rev2 AUTH=PLAIN SASL-IR STARTTLS"
      [] OTHER -> "IMAP4rev1 IMAP4rev2 AUTH=PLAIN SASL-IR"

\* Session.in_progress: this session starts no operation
in_progress == {}

\* must_wait_before: something is in flight.  The body of
\* CommandsInProgress::must_wait_before in session.rs is todo!(); the policy
\* is the one of Queue::must_wait_before in server/queue.rs
must_wait_before(in_flight) == in_flight # {}

\* TaggedCommand::try_from: a line of a SASL exchange is no command
tagged_try_from(item) == IF item.cmd = "Response" THEN "Bad" ELSE item.cmd

\* next_op has read command c and goes on to handle it
ImapCmdRead(c) ==
    /\ pc = "session"
    /\ sessionState # "Logout"
    /\ out = <<>>
    /\ NextLine.kind = "Line"
    /\ tagged_try_from(NextLine.cmd) = c
    /\ ~must_wait_before(in_progress)

\* Session::greet, which the caller may call before it turns to next_op
Imap_greet ==
    /\ pc = "session"
    /\ ~greeted
    /\ out = <<>>
    /\ Reply(<<"* OK [" \o capability_data(capabilities) \o "] Server ready">>,
             "session")
    /\ greeted' = TRUE
    /\ UNCHANGED <<clientVars, streamVars, connVars, queueVars, lineVars, serverClosed, panic,
                   bodyVars, readVars, callVars, envelope, helo_domain,
                   identity, sessionState, validated, incoming>>

\* Session::handle_capability
Imap_capability ==
    /\ ImapCmdRead("Capability")
    /\ TakeLine
    /\ Reply(<<"* " \o capability_data(capabilities), "OK CAPABILITY completed">>,
             "session")
    /\ UNCHANGED <<clientVars, connVars, queueVars, lineVars, serverClosed, panic, bodyVars,
                   readVars, callVars, sessionVars, incoming>>

\* Session::handle_noop
Imap_noop ==
    /\ ImapCmdRead("Noop")
    /\ TakeLine
    /\ Reply(<<"OK NOOP completed">>, "session")
    /\ UNCHANGED <<clientVars, connVars, queueVars, lineVars, serverClosed, panic, bodyVars,
                   readVars, callVars, sessionVars, incoming>>

\* Session::handle_logout with the state left as it was, so that next_op
\* reads on
Imap_logout_reads_on ==
    /\ ImapCmdRead("Logout")
    /\ TakeLine
    /\ sessionState' = sessionState
    /\ Reply(<<"* BYE", "OK Logged out">>, "session")
    /\ serverClosed' = TRUE
    /\ UNCHANGED <<clientVars, connVars, queueVars, lineVars, panic, bodyVars, readVars, callVars,
                   envelope, helo_domain, identity, greeted, validated, incoming>>

\* Session::handle_logout, and next_op's return of Ok(None) in state Logout
Imap_logout ==
    /\ ImapCmdRead("Logout")
    /\ TakeLine
    /\ sessionState' = "Logout"
    /\ Reply(<<"* BYE", "OK Logged out">>, "closed")
    /\ serverClosed' = TRUE
    /\ UNCHANGED <<clientVars, connVars, queueVars, lineVars, panic, bodyVars, readVars, callVars,
                   envelope, helo_domain, identity, greeted, validated, incoming>>

\* Session::handle_enable
Imap_enable ==
    /\ ImapCmdRead("Enable")
    /\ TakeLine
    /\ Reply(IF NextLine.cmd.addr = "-" THEN <<"BAD No capabilities specified">>
             ELSE <<"BAD ENABLE not supported">>, "session")
    /\ UNCHANGED <<clientVars, connVars, queueVars, lineVars, serverClosed, panic, bodyVars,
                   readVars, callVars, sessionVars, incoming>>

\* Session::auth_success with the state left as it was
auth_success_keeps_state(id) ==
    [reply |-> "OK Logged in", identity |-> id, state |-> "NotAuthenticated"]

\* Session::auth_success: the reply, then the identity and the state
auth_success(id) ==
    [reply |-> "OK Logged in", identity |-> id, state |-> "Authenticated"]

\* the end of LOGIN and AUTHENTICATE: v is what the Validator (or the
\* decoding in front of it) returned
Imap_authenticated(v) ==
    /\ validated' = IF v.ok THEN v.identity ELSE validated
    /\ IF v.ok
       THEN \E a \in {auth_success(v.identity)} :
            /\ Reply(<<a.reply>>, "session")
            /\ identity' = IF serverClosed THEN identity ELSE a.identity
            /\ sessionState' = IF serverClosed THEN sessionState ELSE a.state
       ELSE /\ Reply(<<status_response(v.err)>>, "session")
            /\ UNCHANGED <<identity, sessionState>>

\* Session::handle_login without the check of the state
Imap_login_revalidates ==
    /\ ImapCmdRead("Login")
    /\ TakeLine
    /\ Imap_authenticated(validate(NextLine.cmd.addr))
    /\ UNCHANGED <<clientVars, connVars, queueVars, lineVars, serverClosed, panic, bodyVars,
                   readVars, callVars, envelope, helo_domain, greeted, incoming>>

\* Session::handle_login
Imap_login ==
    /\ ImapCmdRead("Login")
    /\ TakeLine
    /\ IF sessionState # "NotAuthenticated"
       THEN /\ Reply(<<"BAD Already authenticated">>, "session")
            /\ UNCHANGED <<identity, sessionState, validated>>
       ELSE Imap_authenticated(validate(NextLine.cmd.addr))
    /\ UNCHANGED <<clientVars, connVars, queueVars, lineVars, serverClosed, panic, bodyVars,
                   readVars, callVars, envelope, helo_domain, greeted, incoming>>

\* handle_authenticate with the initial response dropped: the challenge is
\* written and a line awaited whether or not the command carried a response
Imap_authenticate_always_challenges ==
    /\ ImapCmdRead("Authenticate")
    /\ TakeLine
    /\ IF sessionState # "NotAuthenticated"
       THEN Reply(<<"BAD Already authenticated">>, "session")
       ELSE Reply(<<"+ ">>, "sasl")
    /\ UNCHANGED <<identity, sessionState, validated>>
    /\ UNCHANGED <<clientVars, connVars, queueVars, lineVars, serverClosed, panic, bodyVars,
                   readVars, callVars, envelope, helo_domain, greeted, incoming>>

\* Session::handle_authenticate: with an initial response the exchange ends
\* at once, without one the challenge is written and a line awaited
Imap_authenticate ==
    /\ ImapCmdRead("Authenticate")
    /\ TakeLine
    /\ IF sessionState # "NotAuthenticated"
       THEN /\ Reply(<<"BAD Already authenticated">>, "session")
            /\ UNCHANGED <<identity, sessionState, validated>>
       ELSE IF NextLine.cmd.addr = "None"
       THEN /\ Reply(<<"+ ">>, "sasl")
            /\ UNCHANGED <<identity, sessionState, validated>>
       ELSE Imap_authenticated(eat(NextLine.cmd.addr))
    /\ UNCHANGED <<clientVars, connVars, queueVars, lineVars, serverClosed, panic, bodyVars,
                   readVars, callVars, envelope, helo_domain, greeted, incoming>>

\* authenticate: the client's line after the challenge, whatever it is, is
\* its response; at the end of the stream next_op returns the error
Imap_sasl_response ==
    /\ pc = "sasl"
    /\ out = <<>>
    /\ NextLine.kind # "Pending"
    /\ IF NextLine.kind = "Eof"
       THEN /\ pc' = "failed"
            /\ UNCHANGED <<streamVars, out, identity, sessionState, validated>>
       ELSE /\ TakeLine
            /\ Imap_authenticated(
                   eat(IF NextLine.cmd.cmd = "Response" THEN NextLine.cmd.addr
                       ELSE Undecodable))
    /\ UNCHANGED <<clientVars, connVars, queueVars, lineVars, serverClosed, panic, bodyVars,
                   readVars, callVars, envelope, helo_domain, greeted, incoming>>

\* Session::handle_starttls up to the handshake
Imap_starttls ==
    /\ ImapCmdRead("Starttls")
    /\ TakeLine
    /\ IF is_tls(inner)
       THEN /\ Reply(<<"BAD Already using TLS">>, "session")
            /\ UNCHANGED <<inner, taken, panic>>
       ELSE IF ~tlsConfig
       THEN /\ Reply(<<"BAD TLS not available">>, "session")
            /\ UNCHANGED <<inner, taken, panic>>
       ELSE IF serverClosed
       THEN /\ Reply(<<"BAD Begin TLS negotiation">>, "session")
            /\ UNCHANGED <<inner, taken, panic>>
       ELSE IF buffer' # <<>>
       THEN /\ out' = Append(out, "BAD Begin TLS negotiation")
            /\ pc' = "panicked"
            /\ panic' = "buffer must be empty"
            /\ UNCHANGED <<inner, taken>>
       ELSE /\ out' = Append(out, "BAD Begin TLS negotiation")
            /\ pc' = "imap_starttls"
            /\ taken' = inner
            /\ inner' = "Empty"
            /\ panic' = panic
    /\ UNCHANGED <<clientVars, tlsConfig, queueVars, lineVars, serverClosed, bodyVars, readVars,
                   ret, sessionVars, incoming>>

\* the end of handle_starttls with the session put back to NotAuthenticated
Imap_starttls_done_resets ==
    /\ pc = "imap_starttls"
    /\ \E handshake \in HandshakeOutcomes :
        \E u \in {upgrade(taken, handshake)} :
            /\ inner' = u.inner
            /\ pc' = IF u.result = "Ok" THEN "session" ELSE "failed"
            /\ ret' = <<"upgrade", u.result>>
    /\ taken' = "None"
    /\ wire' = <<>>
    /\ sessionState' = "NotAuthenticated"
    /\ identity' = "None"
    /\ UNCHANGED <<clientVars, buffer, tlsConfig, queueVars, lineVars, wireVars, panic, bodyVars,
                   readVars, envelope, helo_domain, greeted, validated, incoming>>

\* the handshake ends and handle_starttls returns what upgrade returned
Imap_starttls_done ==
    /\ pc = "imap_starttls"
    /\ \E handshake \in HandshakeOutcomes :
        \E u \in {upgrade(taken, handshake)} :
            /\ inner' = u.inner
            /\ pc' = IF u.result = "Ok" THEN "session" ELSE "failed"
            /\ ret' = <<"upgrade", u.result>>
    /\ taken' = "None"
    /\ wire' = <<>>
    /\ UNCHANGED <<clientVars, buffer, tlsConfig, queueVars, lineVars, wireVars, panic, bodyVars,
                   readVars, sessionVars, incoming>>

\* the commands whose arm in next_op is todo!()
Imap_todo ==
    /\ \E c \in TodoCommands : ImapCmdRead(c)
    /\ TakeLine
    /\ pc' = "panicked"
    /\ panic' = "not yet implemented"
    /\ UNCHANGED <<clientVars, connVars, queueVars, lineVars, wireVars, bodyVars, readVars,
                   callVars, sessionVars, incoming>>

\* read_cmd on a line that is no command: Error::Bad is answered,
\* Error::InvalidUtf8 is not
Imap_no_command ==
    /\ pc = "session"
    /\ sessionState # "Logout"
    /\ out = <<>>
    /\ NextLine.kind = "Line"
    /\ tagged_try_from(NextLine.cmd) \in {"Bad", "InvalidUtf8"}
    /\ TakeLine
    /\ Reply(IF tagged_try_from(NextLine.cmd) = "Bad" THEN <<"BAD">> ELSE <<>>,
             "session")
    /\ UNCHANGED <<clientVars, connVars, queueVars, lineVars, serverClosed, panic, bodyVars,
                   readVars, callVars, sessionVars, incoming>>

\* read_cmd returns None at the end of the stream: next_op returns
\* UnexpectedEof
Imap_eof ==
    /\ pc = "session"
    /\ sessionState # "Logout"
    /\ NextLine.kind = "Eof"
    /\ pc' = "failed"
    /\ UNCHANGED <<clientVars, streamVars, connVars, queueVars, lineVars, wireVars, panic, bodyVars,
                   readVars, callVars, sessionVars, incoming>>

\* Session::new on a stream that is plaintext or TLS from the start
InitImap ==
    /\ inner \in {"Plain", "Tls"}
    /\ tlsConfig \in BOOLEAN
    /\ toSend = <<>>
    /\ wire = <<>>
    /\ clientClosed = FALSE
    /\ buffer = <<>>
    /\ pc = "session"
    /\ panic = "none"
    /\ out = <<>>
    /\ serverClosed = FALSE
    /\ dataState = "Start"
    /\ bdat = BdatNone
    /\ script = <<>>
    /\ consumed = <<>>
    /\ delivered = <<>>
    /\ pollResult = "None"
    /\ pollBytes = <<>>
    /\ incoming = NoIncoming
    /\ NewSession

NextImap ==
    \/ ClientSendImap
    \/ ClientShutdown
    \/ ClientRecv
    \/ Imap_greet
    \/ Imap_capability
    \/ Imap_noop
    \/ Imap_logout
    \/ Imap_enable
    \/ Imap_login
    \/ Imap_authenticate
    \/ Imap_sasl_response
    \/ Imap_starttls
    \/ Imap_starttls_done
    \/ Imap_todo
    \/ Imap_no_command
    \/ Imap_eof

SpecImap == InitImap /\ [][NextImap]_vars

(***************************************************************************)
(* crates/imap/src/server/queue.rs: the Queue of operations in flight,     *)
(* under a caller that may call insert, ready, wait and must_wait_before   *)
(* in any order and may drop the Queue, and operation handlers             *)
(* (src/operations.rs) that send their results on the Channels insert      *)
(* handed out.                                                             *)
(***************************************************************************)
CommandNames == {"Select", "List"}

\* mpsc::channel(10)
ChannelCapacity == 10

TagShouldBeKnown == "tag should be known"
UnwrapOnErr == "called Result::unwrap() on an Err value"
NotYetImplemented == "not yet implemented"

\* HashMap::insert: a tag already in the map gets the new name
map_insert(map, tag, name) ==
    [t \in DOMAIN map \cup {tag} |-> IF t = tag THEN name ELSE map[t]]

\* HashMap::remove
map_remove(map, tag) ==
    [t \in DOMAIN map \ {tag} |-> map[t]]

\* Queue::insert
Queue_insert ==
    /\ pc = "caller"
    /\ rxOpen
    /\ \E tag \in Tags, name \in CommandNames :
        /\ inserted["t1"] + inserted["t2"] < MaxOps
        /\ commands' = map_insert(commands, tag, name)
        /\ channels' = [channels EXCEPT ![tag] = @ + 1]
        /\ inserted' = [inserted EXCEPT ![tag] = @ + 1]
        /\ ret' = <<"insert", tag>>
    /\ UNCHANGED <<clientVars, streamVars, connVars, wireVars, pc, panic,
                   bodyVars, readVars, taken, sessionVars, incoming, lineVars,
                   rx, rxOpen, removed>>

\* Channel::send: the payload goes into the channel, or, the receiver being
\* gone, the Channel comes back in the error
Channel_send(tag, open) ==
    IF open THEN [result |-> "Ok", sent |-> <<tag>>, back |-> 0]
    ELSE [result |-> "Err", sent |-> <<>>, back |-> 1]

\* operations::handle once the operation has its result: send it, unwrap
handle ==
    /\ pc = "caller"
    /\ Len(rx) < ChannelCapacity
    /\ \E tag \in Tags :
        /\ channels[tag] > 0
        /\ \E r \in {Channel_send(tag, rxOpen)} :
            /\ rx' = rx \o r.sent
            /\ channels' = [channels EXCEPT ![tag] = @ - 1 + r.back]
            /\ ret' = <<"send", r.result>>
            /\ pc' = IF r.result = "Ok" THEN pc ELSE "panicked"
            /\ panic' = IF r.result = "Ok" THEN panic ELSE UnwrapOnErr
    /\ UNCHANGED <<clientVars, streamVars, connVars, wireVars, bodyVars,
                   readVars, taken, sessionVars, incoming, lineVars,
                   commands, rxOpen, inserted, removed>>

\* the end of Queue::ready and Queue::wait: the payload received is taken
\* out of the map
Queue_received(op) ==
    /\ rx' = Tail(rx)
    /\ IF Head(rx) \in DOMAIN commands
       THEN /\ commands' = map_remove(commands, Head(rx))
            /\ removed' = [removed EXCEPT ![Head(rx)] = @ + 1]
            /\ ret' = <<op, Head(rx)>>
            /\ UNCHANGED <<pc, panic>>
       ELSE /\ pc' = "panicked"
            /\ panic' = TagShouldBeKnown
            /\ UNCHANGED <<commands, removed, ret>>

\* Queue::ready
Queue_ready ==
    /\ pc = "caller"
    /\ rxOpen
    /\ IF rx = <<>>
       THEN /\ ret' = <<"ready", "None">>
            /\ UNCHANGED <<rx, commands, removed, pc, panic>>
       ELSE Queue_received("ready")
    /\ UNCHANGED <<clientVars, streamVars, connVars, wireVars, bodyVars,
                   readVars, taken, sessionVars, incoming, lineVars,
                   rxOpen, channels, inserted>>

\* Queue::wait, which returns when a payload has come
Queue_wait ==
    /\ pc = "caller"
    /\ rxOpen
    /\ rx # <<>>
    /\ Queue_received("wait")
    /\ UNCHANGED <<clientVars, streamVars, connVars, wireVars, bodyVars,
                   readVars, taken, sessionVars, incoming, lineVars,
                   rxOpen, channels, inserted>>

\* the session, and the Queue in it, is dropped
Queue_drop ==
    /\ pc = "caller"
    /\ rxOpen
    /\ rxOpen' = FALSE
    /\ rx' = <<>>
    /\ ret' = <<"drop", "-">>
    /\ UNCHANGED <<clientVars, streamVars, connVars, wireVars, pc, panic,
                   bodyVars, readVars, taken, sessionVars, incoming, lineVars,
                   commands, channels, inserted, removed>>

\* Session::next_op between reading a command and handling it
next_op_must_wait ==
    /\ pc = "caller"
    /\ rxOpen
    /\ IF must_wait_before(DOMAIN commands)
       THEN /\ pc' = "panicked"
            /\ panic' = NotYetImplemented
            /\ ret' = ret
       ELSE /\ ret' = <<"next_op", "handle">>
            /\ UNCHANGED <<pc, panic>>
    /\ UNCHANGED <<clientVars, streamVars, connVars, wireVars, bodyVars,
                   readVars, taken, sessionVars, incoming, queueVars, lineVars>>

\* Queue::new
InitQueue ==
    /\ inner = "Plain"
    /\ tlsConfig = FALSE
    /\ toSend = <<>>
    /\ wire = <<>>
    /\ clientClosed = FALSE
    /\ buffer = <<>>
    /\ pc = "caller"
    /\ panic = "none"
    /\ out = <<>>
    /\ serverClosed = FALSE
    /\ dataState = "Start"
    /\ bdat = BdatNone
    /\ script = <<>>
    /\ consumed = <<>>
    /\ delivered = <<>>
    /\ pollResult = "None"
    /\ pollBytes = <<>>
    /\ incoming = NoIncoming
    /\ NewSession

NextQueue ==
    \/ Queue_insert
    \/ handle
    \/ Queue_ready
    \/ Queue_wait
    \/ Queue_drop
    \/ next_op_must_wait

SpecQueue == InitQueue /\ [][NextQueue]_vars

(***************************************************************************)
(* crates/smtp/src/command.rs read_cmd_inner over crates/line/src/lib.rs   *)
(* read_line, byte counts kept: a line of the client is its length in      *)
(* bytes, CR LF included and nowhere else in it; what a piece of a line    *)
(* parses to is the client's choice, within what its length allows.        *)
(***************************************************************************)
\* crates/smtp/src/lib.rs
LINE_LIMIT == 1000

\* the lengths of the lines a client sends
LineLengths == {2, 6, LINE_LIMIT, LINE_LIMIT + 1, LINE_LIMIT + 6, 2 * LINE_LIMIT + 6}

\* the length of a stream of lines
RECURSIVE Total(_)
Total(ls) == IF ls = <<>> THEN 0 ELSE Head(ls) + Total(Tail(ls))

\* the offsets at which a line of the stream begins, and the end of the stream
Boundaries(ls) == {Total(SubSeq(ls, 1, k)) : k \in 0..Len(ls)}

\* the end of the line that holds the byte at offset off
LineEndAfter(ls, off) ==
    CHOOSE b \in Boundaries(ls) :
        b > off /\ \A c \in Boundaries(ls) : c > off => b <= c

\* read_until(b'\n') on stream.take(LINE_LIMIT): how many bytes it reads,
\* the stream holding the rest of a line at off
take_read_until(ls, off) == Min(LINE_LIMIT, LineEndAfter(ls, off) - off)

\* read_line: how many bytes of the n read are left in buf when the CR and
\* LF at its end are cut off
read_line_truncate(ls, off, n) ==
    LET content == Min(off + n, LineEndAfter(ls, off) - 2) - off
    IN  IF content < 0 THEN 0 ELSE content

\* Command::try_from on c bytes: the shortest command has four
Command_try_from(c) ==
    IF c >= 4 THEN {"Command", "Syntax", "Unrecognized", "InvalidUtf8"}
    ELSE IF c = 0 THEN {"Unrecognized"}
    ELSE {"Unrecognized", "InvalidUtf8"}

\* the client sends a line
ClientSendLine ==
    /\ pc = "read_cmd"
    /\ ~clientClosed
    /\ Len(lines) < MaxLines
    /\ \E l \in LineLengths : lines' = Append(lines, l)
    /\ UNCHANGED <<clientVars, streamVars, connVars, queueVars, wireVars, pc, panic,
                   bodyVars, readVars, callVars, sessionVars, incoming,
                   offset, parsed, buf>>

\* one turn of the loop of read_cmd_inner: a line, or what take lets
\* through of it, is read and parsed; a command is returned to the session,
\* which handles it and calls read_cmd again
read_cmd_inner ==
    /\ pc = "read_cmd"
    /\ offset < Total(lines)
    /\ \E n \in {take_read_until(lines, offset)} :
        /\ offset' = offset + n
        /\ \E r \in Command_try_from(read_line_truncate(lines, offset, n)) :
            IF r = "Command"
            THEN /\ parsed' = Append(parsed, offset)
                 /\ out' = out
            ELSE /\ parsed' = parsed
                 /\ out' = out \o parse_error_reply(r)
    /\ UNCHANGED <<clientVars, streamVars, connVars, queueVars, serverClosed, pc,
                   panic, bodyVars, readVars, callVars, sessionVars, incoming,
                   lines, buf>>

\* read_until returns 0 at the end of the stream: read_cmd_inner returns
\* Ok(None)
read_cmd_inner_eof ==
    /\ pc = "read_cmd"
    /\ clientClosed
    /\ offset = Total(lines)
    /\ pc' = "closed"
    /\ UNCHANGED <<clientVars, streamVars, connVars, queueVars, lineVars, wireVars,
                   panic, bodyVars, readVars, callVars, sessionVars, incoming>>

InitLine ==
    /\ inner = "Plain"
    /\ tlsConfig = FALSE
    /\ toSend = <<>>
    /\ wire = <<>>
    /\ clientClosed = FALSE
    /\ buffer = <<>>
    /\ pc = "read_cmd"
    /\ panic = "none"
    /\ out = <<>>
    /\ serverClosed = FALSE
    /\ dataState = "Start"
    /\ bdat = BdatNone
    /\ script = <<>>
    /\ consumed = <<>>
    /\ delivered = <<>>
    /\ pollResult = "None"
    /\ pollBytes = <<>>
    /\ incoming = NoIncoming
    /\ NewSession

NextReadCmd ==
    \/ ClientSendLine
    \/ ClientShutdown
    \/ read_cmd_inner
    \/ read_cmd_inner_eof

SpecLine == InitLine /\ [][NextReadCmd]_vars

(***************************************************************************)
(* src/main.rs handle_imap: the select! between the handlers of the        *)
(* operations in flight (src/operations.rs handle) and Session::next_op,   *)
(* over read_cmd (crates/imap/src/server.rs) and the Queue.  The next_op   *)
(* that handle_imap calls returns operations; it is the dispatch loop:     *)
(* drain ready(), read a command, wait() while must_wait_before, hand the  *)
(* command out.  A command line reaches the server in two pieces, the      *)
(* second of which ends with its line feed.                                *)
(***************************************************************************)
Half(t, p) == [tag |-> t, part |-> p]

\* the line of the command with tag t
LineOf(t) == <<Half(t, 1), Half(t, 2)>>

\* the lines of the commands with the tags of s, one after the other
RECURSIVE Pipeline(_)
Pipeline(s) == IF s = <<>> THEN <<>> ELSE LineOf(Head(s)) \o Pipeline(Tail(s))

\* read_until(b'\n'): how much of what the stream holds it appends to buf
RECURSIVE read_until(_, _)
read_until(w, n) ==
    IF n > Len(w) THEN Len(w)
    ELSE IF w[n].part = 2 THEN n
    ELSE read_until(w, n + 1)

\* TaggedCommand::try_from: a line that lacks its beginning is no command
TaggedCommand_try_from(line) ==
    IF Len(line) = 2 /\ line[1].part = 1 THEN line[1].tag ELSE "Bad"

\* next_op drains Queue::ready: a payload that has come is answered with
\* the tagged response
next_op_ready ==
    /\ pc = "select"
    /\ rx # <<>>
    /\ out' = Append(out, Head(rx) \o " OK")
    /\ commands' = map_remove(commands, Head(rx))
    /\ rx' = Tail(rx)
    /\ UNCHANGED <<clientVars, streamVars, connVars, serverClosed, pc, panic,
                   bodyVars, readVars, callVars, sessionVars, incoming,
                   lineVars, rxOpen, channels, inserted, removed>>

\* next_op in read_cmd: read_line appends what has come to buf; a whole
\* line is parsed, and a command is handed out as an operation unless
\* must_wait_before holds, in which case next_op awaits Queue::wait with
\* the command in hand
next_op_read_cmd ==
    /\ pc \in {"select", "reading"}
    /\ rx = <<>>
    /\ wire # <<>>
    /\ \E n \in {read_until(wire, 1)} :
        /\ wire' = Drop(wire, n)
        /\ consumed' = consumed \o SubSeq(wire, 1, n)
        /\ \E line \in {buf \o SubSeq(wire, 1, n)} :
            IF line[Len(line)].part # 2
            THEN /\ buf' = line
                 /\ pc' = "reading"
                 /\ UNCHANGED <<out, parsed, ret, commands, channels>>
            ELSE IF TaggedCommand_try_from(line) = "Bad"
            THEN /\ buf' = <<>>
                 /\ pc' = "reading"
                 /\ out' = Append(out, "BAD")
                 /\ parsed' = Append(parsed, line)
                 /\ UNCHANGED <<ret, commands, channels>>
            ELSE IF must_wait_before(DOMAIN commands)
            THEN /\ buf' = <<>>
                 /\ pc' = "waiting"
                 /\ ret' = <<"command", TaggedCommand_try_from(line)>>
                 /\ UNCHANGED <<out, parsed, commands, channels>>
            ELSE /\ buf' = <<>>
                 /\ pc' = "select"
                 /\ parsed' = Append(parsed, line)
                 /\ commands' = map_insert(commands, TaggedCommand_try_from(line),
                                           "Select")
                 /\ channels' = [channels EXCEPT
                                    ![TaggedCommand_try_from(line)] = @ + 1]
                 /\ UNCHANGED <<out, ret>>
    /\ UNCHANGED <<clientVars, buffer, connVars, serverClosed, panic, bodyVars,
                   delivered, pollResult, pollBytes, taken, sessionVars,
                   incoming, lines, offset, rx, rxOpen, inserted, removed>>

\* select!: a handler of futures ends first.  It has sent its payload
\* (operations::handle); the future of next_op is dropped, and with it the
\* buf of its read_cmd and the command it held
select_handler_done ==
    /\ pc \in {"select", "reading", "waiting"}
    /\ \E tag \in Tags :
        /\ channels[tag] > 0
        /\ \E r \in {Channel_send(tag, rxOpen)} :
            /\ rx' = rx \o r.sent
            /\ channels' = [channels EXCEPT ![tag] = @ - 1 + r.back]
    /\ buf' = <<>>
    /\ ret' = <<"-", "-">>
    /\ pc' = "select"
    /\ UNCHANGED <<clientVars, streamVars, connVars, wireVars, panic, bodyVars,
                   readVars, taken, sessionVars, incoming, lines, offset,
                   parsed, commands, rxOpen, inserted, removed>>

\* read_cmd at the end of the stream: what buf holds is a line; with
\* nothing in buf read_cmd returns None, and handle_imap returns when no
\* handler is left
next_op_eof ==
    /\ pc \in {"select", "reading"}
    /\ rx = <<>>
    /\ wire = <<>>
    /\ toSend = <<>>
    /\ clientClosed
    /\ IF buf # <<>>
       THEN /\ buf' = <<>>
            /\ out' = Append(out, "BAD")
            /\ parsed' = Append(parsed, buf)
            /\ pc' = "reading"
       ELSE /\ \A tag \in Tags : channels[tag] = 0
            /\ pc' = "closed"
            /\ UNCHANGED <<buf, out, parsed>>
    /\ UNCHANGED <<clientVars, streamVars, connVars, serverClosed, panic, bodyVars,
                   readVars, callVars, sessionVars, incoming, queueVars, lines,
                   offset>>

\* a session whose client pipelines up to MaxOps commands
InitSelect ==
    /\ inner = "Plain"
    /\ tlsConfig = FALSE
    /\ toSend \in {Pipeline(s) : s \in SeqsUpTo(Tags, MaxOps)}
    /\ wire = <<>>
    /\ clientClosed = FALSE
    /\ buffer = <<>>
    /\ pc = "select"
    /\ panic = "none"
    /\ out = <<>>
    /\ serverClosed = FALSE
    /\ dataState = "Start"
    /\ bdat = BdatNone
    /\ script = <<>>
    /\ consumed = <<>>
    /\ delivered = <<>>
    /\ pollResult = "None"
    /\ pollBytes = <<>>
    /\ incoming = NoIncoming
    /\ NewSession

NextSelect ==
    \/ ClientSend
    \/ ClientShutdown
    \/ next_op_ready
    \/ next_op_read_cmd
    \/ select_handler_done
    \/ next_op_eof

SpecSelect == InitSelect /\ [][NextSelect]_vars

(***************************************************************************)
(* C1: next_message yields an Incoming, for DATA or for BDAT, only while   *)
(* the session holds an envelope, put there by an accepted MAIL, that has  *)
(* at least one recipient; the Incoming carries exactly that envelope.     *)
(***************************************************************************)
C1_EnvelopeGating ==
    /\ [](pc = "incoming" =>
            /\ incoming.kind \in {"Data", "Bdat"}
            /\ incoming.envelope.some
            /\ incoming.envelope.recipients # {})
    /\ [][/\ (incoming' # incoming /\ incoming'.kind # "None") =>
                /\ pc = "session" /\ pc' = "incoming"
                /\ NextLine.cmd.cmd = (IF incoming'.kind = "Data" THEN "Data" ELSE "Bdat")
                /\ envelope.some
                /\ envelope.recipients # {}
                /\ incoming'.envelope = envelope
          /\ (~envelope.some /\ envelope'.some) =>
                /\ NextLine.cmd.cmd = "Mail"
                /\ envelope' = [some |-> TRUE, from |-> NextLine.cmd.addr,
                                recipients |-> {}]
                \* the reply, unless the write side is shut down
                /\ out' = <<"250 ok">> \/ pc' = "failed"]_vars

\* an Incoming in BDAT mode whose envelope holds both recipients
C1_Witness ==
    /\ pc = "incoming"
    /\ incoming.kind = "Bdat"
    /\ incoming.envelope.recipients = Addrs

(***************************************************************************)
(* C2: the SMTP session writes `235 welcome` only when a SASL exchange     *)
(* has ended with the Validator accepting the credentials, and the         *)
(* session's identity then is the validated identity.                      *)
(***************************************************************************)
C2_WelcomeOnlyValidated ==
    (\E i \in 1..Len(out) : out[i] = "235 welcome") =>
        /\ validated # "None"
        /\ identity = validated

(***************************************************************************)
(* C3: an IMAP session is Authenticated (or Selected) only after a LOGIN   *)
(* or AUTHENTICATE of the session for which the Validator returned an      *)
(* identity, and its identity is then that identity; while it is           *)
(* NotAuthenticated it has no identity; the tagged OK "Logged in" is       *)
(* written by exactly the steps that handle such a command, and those      *)
(* steps are the only ones that make the session Authenticated.            *)
(***************************************************************************)
LoggedIn == "OK Logged in"

Written(o, r) == \E i \in 1..Len(o) : o[i] = r

\* the credentials the line being handled presents to the Validator
Presented ==
    IF pc = "sasl"
    THEN IF NextLine.cmd.cmd = "Response" THEN NextLine.cmd.addr ELSE Undecodable
    ELSE IF NextLine.cmd.cmd \in {"Login", "Authenticate"} THEN NextLine.cmd.addr
    ELSE Undecodable

\* the session is at a LOGIN, an AUTHENTICATE with an initial response, or
\* the response to a challenge, with credentials the Validator accepts
AtAcceptedLogin ==
    /\ pc \in {"session", "sasl"}
    /\ out = <<>>
    /\ sessionState = "NotAuthenticated"
    /\ NextLine.kind = "Line"
    /\ Presented \in Credentials
    /\ validate(Presented).ok

C7_StarttlsDiscardsAuthentication ==
    /\ [][(pc = "imap_starttls" /\ pc' = "session")
            => sessionState' = "NotAuthenticated" /\ identity' = "None"]_vars
    /\ [](is_tls(inner) => capabilities \cap {"STARTTLS", "LOGINDISABLED"} = {})


(***************************************************************************)
(* C4: when a session calls Connection.upgrade the buffered reader holds   *)
(* no unread bytes, whatever the client sent after its STARTTLS line: the  *)
(* assertion `buffer must be empty` never fails.                           *)
(***************************************************************************)
C4_BufferEmptyAtUpgrade ==
    /\ pc = "starttls" => buffer = <<>>
    /\ panic # "buffer must be empty"

(***************************************************************************)
(* C5: MaybeTls.upgrade on a Plain stream returns Ok with the stream Tls,  *)
(* or the handshake's error with the stream Plain again, holding the       *)
(* plaintext stream as the handshake left it; on a stream that is Tls it   *)
(* does no handshake, leaves the stream Tls and returns Ok.                *)
(***************************************************************************)
C5_UpgradeOutcomes ==
    [][(ret' # ret /\ ret'[1] = "upgrade" /\ ret'[2] \notin {"Pending", "Dropped"}) =>
            CASE pc = "upgrading" /\ taken = "Plain" ->
                    /\ pc' = "caller"
                    /\ \/ ret'[2] = "Ok" /\ inner' = "Tls"
                       \/ ret'[2] = "Err" /\ inner' = "Plain"
                    /\ UNCHANGED <<buffer, out, serverClosed, clientClosed>>
              [] pc = "caller" /\ inner = "Tls" ->
                    /\ ret'[2] = "Ok"
                    /\ inner' = "Tls"
                    /\ pc' = "caller"
                    /\ UNCHANGED <<wire, buffer, out, serverClosed, taken>>
              [] OTHER -> pc = "caller" /\ inner = "Empty"]_vars

\* a failed handshake has handed the plaintext stream back
C5_Witness ==
    /\ pc = "caller"
    /\ ret = <<"upgrade", "Err">>
    /\ inner = "Plain"

(***************************************************************************)
(* C6: whenever a caller can invoke a method of a MaybeTls, the stream is  *)
(* Plain or Tls (is_plain XOR is_tls) and no unreachable!() arm of         *)
(* read/write/flush/shutdown is entered.                                   *)
(***************************************************************************)
C6_NeverEmpty ==
    /\ pc = "caller" => (is_plain(inner) # is_tls(inner))
    /\ panic # Unreachable

(***************************************************************************)
(* C11: a body B that holds no CR LF '.' CR LF, encoded by the client and  *)
(* read through the DATA reader until a read returns no bytes, comes out   *)
(* as exactly B.                                                           *)
(***************************************************************************)
C11_DotStuffingInverse ==
    (pollResult = "Ready" /\ pollBytes = <<>>) => delivered = script

(***************************************************************************)
(* C12: whatever the order of insert, send, ready and wait on a Queue, a   *)
(* payload consumed by ready or wait removes exactly its own tag from the  *)
(* map of operations in flight, a tag is never removed more often than it  *)
(* was inserted, once every result has been consumed every insert has had  *)
(* its removal, and the assertion "tag should be known" never fails.       *)
(***************************************************************************)
C12_TagsRemovedOnce ==
    /\ [](/\ panic # TagShouldBeKnown
          /\ \A t \in Tags : removed[t] <= inserted[t]
          /\ (pc = "caller" /\ rxOpen /\ rx = <<>>
                /\ \A t \in Tags : channels[t] = 0)
             => \A t \in Tags : removed[t] = inserted[t])
    /\ [][(rxOpen' /\ rx # <<>> /\ rx' = Tail(rx))
            => /\ Head(rx) \in DOMAIN commands
               /\ DOMAIN commands' = DOMAIN commands \ {Head(rx)}]_vars

(***************************************************************************)
(* C13: must_wait_before is true exactly while an operation is in flight,  *)
(* and a session that has read a command while an operation is in flight   *)
(* waits: it neither handles the command nor panics.                       *)
(***************************************************************************)
C13_WaitsWhileInFlight ==
    /\ [](must_wait_before(DOMAIN commands) <=> commands # <<>>)
    /\ [](panic # NotYetImplemented)
    /\ [][(DOMAIN commands # {} /\ ret' # ret) => ret'[1] # "next_op"]_vars

(***************************************************************************)
(* C14: a send on a Channel whose Queue has been dropped returns the error *)
(* with the Channel in it and puts nothing into the channel, and the       *)
(* handler does not panic over it.                                         *)
(***************************************************************************)
C14_SendErrorHandled ==
    /\ [](panic # UnwrapOnErr)
    /\ [][(~rxOpen /\ ret' # ret /\ ret'[1] = "send")
            => ret'[2] = "Err" /\ channels' = channels /\ rx' = rx]_vars

(***************************************************************************)
(* C15: every command line the SMTP session takes off the stream, whether  *)
(* or not it parses, is answered by exactly one reply before the next line *)
(* is read, unless the write fails; a BDAT that starts a message is        *)
(* answered only once its chunk has been read, and accept and reject write *)
(* the one final reply of a message.                                       *)
(***************************************************************************)
C15_OneReplyPerCommand ==
    [][/\ (/\ pc = "session"
           /\ NextLine.kind = "Line"
           /\ Len(Avail') < Len(Avail)
           /\ pc' # "failed")
          => IF incoming'.kind = "Bdat" THEN out' = out
             ELSE Len(out') = Len(out) + 1
       /\ (pc = "incoming" /\ pc' \in {"accepted", "rejected"})
          => Len(out') = Len(out) + 1]_vars

(***************************************************************************)
(* C16: in every state of an IMAP session the capability set holds         *)
(* LOGINDISABLED exactly when the connection is plaintext, and STARTTLS    *)
(* only when the connection is plaintext and TLS is configured; a greeting *)
(* or CAPABILITY reply that is written lists LOGINDISABLED and STARTTLS    *)
(* under these same conditions, before and after STARTTLS.                 *)
(***************************************************************************)
CapabilitySets ==
    {{"IMAP4rev1", "IMAP4rev2", "AUTH=PLAIN", "SASL-IR"} \cup x :
        x \in SUBSET {"LOGINDISABLED", "STARTTLS"}}

\* the greeting and the CAPABILITY reply that list the capabilities c
RepliesListing(c) ==
    {"* " \o capability_data(c), "* OK [" \o capability_data(c) \o "] Server ready"}

C17_StarttlsClearsSession ==
    /\ [][(pc = "starttls" /\ pc' = "session")
            => /\ is_tls(inner')
               /\ helo_domain' = "None"
               /\ identity' = "None"
               /\ envelope' = NoEnvelope]_vars
    /\ [][(/\ pc = "session"
           /\ helo_domain = "None"
           /\ NextLine.kind = "Line"
           /\ NextLine.cmd.cmd = "Mail"
           /\ Len(Avail') < Len(Avail)
           /\ pc' # "failed")
            => /\ out' = <<"503 say HELO first">>
               /\ envelope' = NoEnvelope
               /\ helo_domain' = "None"]_vars

\* MAIL refused on the connection that STARTTLS has upgraded
C17_Witness ==
    /\ ret = <<"upgrade", "Ok">>
    /\ is_tls(inner)
    /\ helo_domain = "None"
    /\ envelope = NoEnvelope
    /\ out = <<"503 say HELO first">>

(***************************************************************************)
(* C18: SMTP MAIL is answered `503 say HELO first` while helo_domain is    *)
(* unset and `501 transaction already started` while an envelope exists,   *)
(* helo_domain, envelope and identity staying as they are; otherwise it is *)
(* answered `250 ok` and the envelope is a new one with that sender and no *)
(* recipients.  No other step makes an envelope.                           *)
(***************************************************************************)
\* the session takes a line that is command c off the stream and handles it,
\* its reply being written
Handled(c) ==
    /\ pc = "session"
    /\ NextLine.kind = "Line"
    /\ NextLine.cmd.cmd = c
    /\ Len(Avail') < Len(Avail)
    /\ pc' # "failed"

C18_MailGating ==
    /\ [][Handled("Mail") =>
            IF helo_domain = "None"
            THEN /\ out' = <<"503 say HELO first">>
                 /\ UNCHANGED <<helo_domain, envelope, identity>>
            ELSE IF envelope.some
            THEN /\ out' = <<"501 transaction already started">>
                 /\ UNCHANGED <<helo_domain, envelope, identity>>
            ELSE /\ out' = <<"250 ok">>
                 /\ envelope' = [some |-> TRUE, from |-> NextLine.cmd.addr,
                                 recipients |-> {}]
                 /\ UNCHANGED <<helo_domain, identity>>]_vars
    /\ [][(~envelope.some /\ envelope'.some) =>
            /\ pc = "session"
            /\ NextLine.cmd.cmd = "Mail"
            /\ helo_domain # "None"]_vars

\* a MAIL refused within a transaction that has a recipient
C18_Witness ==
    /\ pc = "session"
    /\ out = <<"501 transaction already started">>
    /\ envelope.some
    /\ envelope.recipients # {}

(***************************************************************************)
(* C19: SMTP RCPT without an envelope is answered `503 need MAIL command`  *)
(* and changes nothing; with an envelope it is answered `250 ok` and the   *)
(* recipients become the old ones and the address, so that an address      *)
(* already there changes nothing; the sender of an envelope never changes. *)
(***************************************************************************)
C19_RcptAddsRecipient ==
    /\ [][Handled("Rcpt") =>
            IF ~envelope.some
            THEN /\ out' = <<"503 need MAIL command">>
                 /\ UNCHANGED <<helo_domain, envelope, identity>>
            ELSE /\ out' = <<"250 ok">>
                 /\ envelope'.some
                 /\ envelope'.recipients =
                        envelope.recipients \cup {NextLine.cmd.addr}
                 /\ NextLine.cmd.addr \in envelope.recipients
                        => envelope' = envelope
                 /\ UNCHANGED <<helo_domain, identity>>]_vars
    /\ [][(envelope.some /\ envelope'.some) => envelope'.from = envelope.from]_vars

\* both addresses are recipients of a transaction
C19_Witness ==
    /\ pc = "session"
    /\ out = <<"250 ok">>
    /\ envelope.some
    /\ envelope.recipients = Addrs

(***************************************************************************)
(* C20: SMTP DATA or BDAT without an envelope is answered `503 need MAIL   *)
(* command`; with an envelope without recipients it is answered `554 no    *)
(* recipients` and the envelope stays; with a recipient the envelope goes  *)
(* into the Incoming that is yielded and the session has none afterwards.  *)
(***************************************************************************)
C20_EnvelopeReadiness ==
    [][\A c \in {"Data", "Bdat"} :
        Handled(c) =>
            IF ~envelope.some
            THEN /\ out' = <<"503 need MAIL command">>
                 /\ pc' = "session"
                 /\ UNCHANGED <<envelope, incoming>>
            ELSE IF envelope.recipients = {}
            THEN /\ out' = <<"554 no recipients">>
                 /\ pc' = "session"
                 /\ UNCHANGED <<envelope, incoming>>
            ELSE /\ pc' = "incoming"
                 /\ incoming'.kind = c
                 /\ incoming'.envelope = envelope
                 /\ envelope' = NoEnvelope]_vars

\* an envelope without recipients that DATA or BDAT has left in place
C20_Witness ==
    /\ pc = "session"
    /\ out = <<"554 no recipients">>
    /\ envelope.some
    /\ envelope.recipients = {}

(***************************************************************************)
(* C21: SMTP HELO and EHLO each leave the session without an envelope and  *)
(* with helo_domain the domain of the command, identity as it was; RSET    *)
(* leaves it without an envelope, helo_domain and identity as they were;   *)
(* NOOP changes none of the three.                                         *)
(***************************************************************************)
C21_HeloRsetNoopFrame ==
    /\ [][(Handled("Helo") \/ Handled("Ehlo")) =>
            /\ envelope' = NoEnvelope
            /\ helo_domain' = NextLine.cmd.addr
            /\ helo_domain' \in Domains
            /\ identity' = identity]_vars
    /\ [][Handled("Rset") =>
            /\ envelope' = NoEnvelope
            /\ UNCHANGED <<helo_domain, identity>>]_vars
    /\ [][Handled("Noop") =>
            UNCHANGED <<envelope, helo_domain, identity>>]_vars

\* a HELO that named the second domain has been answered
C21_Witness ==
    /\ pc = "session"
    /\ out = <<"250 hello">>
    /\ helo_domain = "d2"
    /\ ~envelope.some

(***************************************************************************)
(* C22: IMAP LOGIN or AUTHENTICATE handled in a state other than           *)
(* NotAuthenticated is answered BAD `Already authenticated` and nothing    *)
(* else: the Validator is not called, no challenge is written and no       *)
(* response awaited, and state and identity stay as they are.              *)
(***************************************************************************)
\* next_op takes a line that is command c off the stream and handles it
ImapHandled(c) ==
    /\ pc = "session"
    /\ NextLine.kind = "Line"
    /\ tagged_try_from(NextLine.cmd) = c
    /\ Len(Avail') < Len(Avail)

Presenting ==
    CASE ImapHandled("Login") -> NextLine.cmd.addr
      [] ImapHandled("Authenticate") -> NextLine.cmd.addr
      [] pc = "sasl" /\ NextLine.kind = "Line" /\ Len(Avail') < Len(Avail) ->
            IF NextLine.cmd.cmd = "Response" THEN NextLine.cmd.addr
            ELSE Undecodable
      [] OTHER -> "None"

C26_StarttlsReplies ==
    [][ImapHandled("Starttls") =>
        IF is_tls(inner)
        THEN /\ out' = <<"BAD Already using TLS">>
             /\ pc' = "session"
             /\ UNCHANGED <<inner, taken>>
        ELSE IF ~tlsConfig
        THEN /\ out' = <<"BAD TLS not available">>
             /\ pc' = "session"
             /\ UNCHANGED <<inner, taken>>
        ELSE out' = <<"OK Begin TLS negotiation">>]_vars

(***************************************************************************)
(* C27: an IMAP command that parses and is not implemented is answered     *)
(* with a tagged BAD, the state of the session stays as it is and the      *)
(* session reads on; the session does not panic.                           *)
(***************************************************************************)
C27_UnimplementedAnsweredBad ==
    [][(\E c \in TodoCommands : ImapHandled(c)) =>
        /\ Len(out') = 1
        /\ pc' = "session"
        /\ panic' = "none"
        /\ UNCHANGED <<sessionState, identity>>]_vars

(***************************************************************************)
(* C29: when the future of MaybeTls::upgrade is dropped while the          *)
(* handshake is pending, the stream is left Plain or Tls, not Empty, and   *)
(* the call that follows on it (is_plain, is_tls, a read or a write) does  *)
(* not enter unreachable!().                                               *)
(***************************************************************************)
C29_CancelledUpgradeRestores ==
    [][/\ (pc = "upgrading" /\ ret' = <<"upgrade", "Dropped">>) =>
            (is_plain(inner') \/ is_tls(inner'))
       /\ (pc = "caller" /\ ret = <<"upgrade", "Dropped">>) =>
            panic' # Unreachable]_vars

(***************************************************************************)
(* C30: every SMTP command read_cmd returns begins at a line boundary of   *)
(* the client's byte stream: the start of the stream or the byte after a   *)
(* line feed.  No part of a line longer than LINE_LIMIT is read as a       *)
(* command of its own.                                                     *)
(***************************************************************************)
C30_CommandsStartAtLineBoundary ==
    \A i \in DOMAIN parsed : parsed[i] \in Boundaries(lines)

(***************************************************************************)
(* C28: under handle_imap's select! nothing the session has read from the  *)
(* wire is lost when a next_op is dropped: what was read is made up of the *)
(* lines that were handed out or answered, the command next_op holds while *)
(* it waits and the piece of a line in buf, and every line dealt with is a *)
(* whole line of the client.  Only then can every command line be answered *)
(* by its one tagged response.                                             *)
(***************************************************************************)
RECURSIVE Flatten(_)
Flatten(ls) == IF ls = <<>> THEN <<>> ELSE Head(ls) \o Flatten(Tail(ls))

Held == IF pc = "waiting" THEN LineOf(ret[2]) ELSE <<>>

C31_CleanEndOnlyAfterTerminator ==
    (pc = "data" /\ pollResult = "Ready" /\ pollBytes = <<>>) => dataState = "Eof"

(***************************************************************************)
(* C32: the BDAT reader returns a clean EOF only when a chunk marked LAST  *)
(* was read in full or a `BDAT 0 LAST` was received, and then all chunks   *)
(* of the client have been read.  A read at the end of the transport       *)
(* before that fails, and so does the read that meets RSET or QUIT between *)
(* chunks; QUIT is answered `221 Bye` first.                               *)
(***************************************************************************)
\* the reader waits for a BDAT command, or is about to
BetweenChunks ==
    \/ bdat.kind = "Write"
    \/ bdat.kind = "Read" /\ bdat.limit = 0 /\ ~bdat.last

\* a chunk marked LAST has been read in full
LastChunkRead == bdat.kind = "Read" /\ bdat.limit = 0 /\ bdat.last

C32_CleanEofOnlyAfterLast ==
    /\ []((pc = "incoming" /\ AtBodyEof) =>
            /\ \/ LastChunkRead
               \/ /\ bdat.kind = "WriteDone"
                  /\ consumed # <<>>
                  /\ consumed[Len(consumed)] = BdatCmd(0, TRUE)
            /\ script.last
            /\ consumed = ChunkItems(script, 1))
    /\ [][Incoming_poll_read_bdat =>
            /\ (Avail = <<>> /\ clientClosed /\ toSend = <<>> /\ ~LastChunkRead) =>
                    (pollResult' = "Err" /\ pc' = "failed")
            /\ (BetweenChunks /\ Avail # <<>> /\ Avail[1] = Cmd("Rset")) =>
                    (pollResult' = "Err" /\ pc' = "failed")
            /\ (BetweenChunks /\ Avail # <<>> /\ Avail[1] = Cmd("Quit")) =>
                    /\ pollResult' = "Err"
                    /\ pc' = "failed"
                    /\ out' # <<>>
                    /\ out'[Len(out')] = "221 Bye"]_vars

\* the read failed on a QUIT sent between two chunks
C32_Witness ==
    /\ pc = "failed"
    /\ pollResult = "Err"
    /\ script.ending = "Quit"
    /\ out # <<>>
    /\ out[Len(out)] = "221 Bye"

(***************************************************************************)
(* C33: the DATA reader takes the start of the body for the start of a     *)
(* line.  A body that opens with '.' CR LF ends there: the reader is in    *)
(* Eof after these three bytes, has delivered nothing and consumes no      *)
(* more.  A first line that begins with '..' is delivered with one dot     *)
(* removed.                                                                *)
(***************************************************************************)
C33_BodyStartsAtLineStart ==
    /\ IsPrefix(<<DOT, CR, LF>>, consumed) =>
            /\ dataState = "Eof"
            /\ delivered = <<>>
            /\ consumed = <<DOT, CR, LF>>
    /\ IsPrefix(<<DOT, DOT, "X">>, consumed) => IsPrefix(<<DOT, "X">>, delivered)

(***************************************************************************)
(* C34: a body line that begins with two dots is delivered with exactly    *)
(* one of them removed, whatever follows the dots: once the reader has     *)
(* consumed CR LF '.' '.' b, with b not a CR, it has delivered CR LF '.' b. *)
(***************************************************************************)
C34_EveryStuffedLineUnescaped ==
    \A b \in Bytes \ {CR, LF} :
        EndsWith(consumed, <<CR, LF, DOT, DOT, b>>) =>
            EndsWith(delivered, <<CR, LF, DOT, b>>)

(***************************************************************************)
(* C35: one advance step of the DATA decoder puts between 0 and 3 bytes    *)
(* into the buffer, so what one poll_read hands over is at most 3 bytes,   *)
(* and it never puts more than the 5 bytes of room poll_read has checked   *)
(* for: no read panics on a full buffer.                                   *)
(***************************************************************************)
C35_AdvanceAppendsAtMostThree ==
    /\ Len(pollBytes) <= 3
    /\ panic = "none"

(***************************************************************************)
(* C37: once the SMTP session has answered QUIT with `221 Bye` and shut    *)
(* the write side down, it handles no further command of the client: it    *)
(* takes no line off the stream, no field of the session changes and no    *)
(* Incoming is yielded.                                                    *)
(***************************************************************************)
C37_NothingAfterQuit ==
    [][(pc = "session" /\ serverClosed) =>
            /\ Len(Avail') >= Len(Avail)
            /\ sessionVars' = sessionVars
            /\ incoming' = incoming
            /\ pc' # "incoming"]_vars

(***************************************************************************)
(* C36: an Incoming in DATA mode that was read to EOF has consumed exactly *)
(* the message: all bytes through the LF of the first closing line (a line *)
(* that is a single '.', the first line of the body included) and none     *)
(* after it, so that the next byte on the stream is the first byte of the  *)
(* next command.                                                           *)
(***************************************************************************)
\* the first n bytes of s end with the closing line of a message
EndOfData(s, n) ==
    \/ n = 3 /\ Len(s) >= 3 /\ SubSeq(s, 1, 3) = <<DOT, CR, LF>>
    \/ n >= 5 /\ Len(s) >= n /\ SubSeq(s, n - 4, n) = Terminator

C36_ConsumedExactlyTheMessage ==
    (pc = "data" /\ dataState = "Eof" /\ AtBodyEof) =>
        /\ EndOfData(consumed, Len(consumed))
        /\ \A n \in 1..(Len(consumed) - 1) : ~EndOfData(consumed, n)

(***************************************************************************)
(* C38: while the IMAP connection is plaintext, that is while the session  *)
(* advertises LOGINDISABLED, a LOGIN command is not answered               *)
(* `OK Logged in` and leaves the state of the session as it is.            *)
(***************************************************************************)
C38_LoginDisabledOnPlaintext ==
    [][(ImapHandled("Login") /\ "LOGINDISABLED" \in capabilities) =>
            /\ \A i \in (Len(out) + 1)..Len(out') : out'[i] # "OK Logged in"
            /\ sessionState' = sessionState
            /\ identity' = identity]_vars

(***************************************************************************)
(* C39: in an AUTHENTICATE exchange the server writes one continuation     *)
(* line `+ ` (the challenge of PLAIN is empty) before each response it     *)
(* reads from the wire, and writes it for nothing else.  An initial        *)
(* response that came with the command is consumed at once, no             *)
(* continuation is written for it and no further line is read.  For PLAIN  *)
(* the exchange ends with the tagged reply after one response.  At the end *)
(* of the stream the wait for a response ends with the I/O error, nothing  *)
(* written and the session as it was.                                      *)
(***************************************************************************)
\* the tagged replies that end an AUTHENTICATE exchange
ExchangeEnds ==
    {"OK Logged in", "NO invalid credentials", "BAD invalid identity",
     "BAD failed to decode response"}

C40_WaitingForBdat ==
    /\ [][(/\ Incoming_poll_read_bdat
           /\ BetweenChunks
           /\ Avail # <<>>
           /\ Avail[1].t = "cmd"
           /\ Avail[1].cmd \notin {"Bdat", "Quit", "Rset"} \cup ParseErrors) =>
            LET reply == IF Avail[1].cmd = "Noop" THEN "250 ok"
                         ELSE "503 expected BDAT"
                request == IF bdat.kind = "Read" THEN <<"250 ok">> ELSE <<>>
            IN  /\ IsPrefix(out \o request \o <<reply>>, out')
                /\ \A i \in (Len(out) + 1)..Len(out') : out'[i] \in {"250 ok", reply}
                /\ pollResult' \in {"Pending", "Ready", "Err"}
                /\ pc' = IF pollResult' = "Err" THEN "failed" ELSE "incoming"
                \* the read fails only when the stream ends while it waits
                /\ pollResult' = "Err" =>
                        (clientClosed /\ toSend = <<>> /\ Avail' = <<>>)
                /\ (Len(Avail') = Len(Avail) - 1 /\ pollResult' # "Err") =>
                        /\ bdat'.kind = "Write"
                        /\ pollResult' = "Pending"
                        /\ delivered' = delivered
                /\ IsPrefix(delivered', Concatenation(script, 1))
                /\ sessionVars' = sessionVars
                /\ incoming' = incoming]_vars
    /\ [][(script.gap # 0 /\ script.noise # "Syntax"
            /\ pc = "incoming" /\ AtBodyEof') =>
                delivered' = Concatenation(script, 1)]_vars

\* a DATA command sent between two chunks was answered 503 and the reader
\* has gone on to the end of the body
C40_Witness ==
    /\ script.gap # 0
    /\ script.noise = "Data"
    /\ pc = "incoming"
    /\ AtBodyEof
    /\ delivered = Concatenation(script, 1)
    /\ delivered # <<>>
    /\ \E i \in DOMAIN out : out[i] = "503 expected BDAT"

====
